---- MODULE Spec2Model ----
(***************************************************************************)
(* Route-construction and timing engine of tabkha-driver:                  *)
(*   - solveVRPTW / solveVRPTWTrafficAware  (greedy single-vehicle VRPTW)  *)
(*   - computeEtas                          (ETA / timing simulator)       *)
(*   - splitRoutes / createRouteResult      (route splitter)               *)
(*   - refineRouteWithTraffic + its POST    (traffic refinement pass)      *)
(*   - POST optimize                        (geocode -> matrix -> solver)  *)
(*   - useDriverTracking + POST location    (location log buffer)          *)
(*                                                                         *)
(* Timestamps are JavaScript Date values: integer milliseconds.  The model *)
(* places every request on day 0 of the epoch and reads getHours() in a    *)
(* zone with offset 0.  An optional value (a possibly absent field, an     *)
(* array read that may be undefined) is a sequence of length 0 or 1.       *)
(***************************************************************************)
EXTENDS Integers, Sequences, FiniteSets, TLC

VARIABLES solver, eta, split, refine, optimize, tracking

vars == <<solver, eta, split, refine, optimize, tracking>>

(***************************************************************************)
(* Bounds of the model.                                                    *)
(***************************************************************************)
MaxStops == 2

(***************************************************************************)
(* Generic helpers for JavaScript arithmetic and arrays.                   *)
(***************************************************************************)
Max(a, b) == IF a >= b THEN a ELSE b

Min(a, b) == IF a <= b THEN a ELSE b

\* Math.floor(a / b) for b > 0, also for negative a.
FloorDiv(a, b) == IF a >= 0 THEN a \div b ELSE -((-a + b - 1) \div b)

\* Math.ceil(a / b) for b > 0, also for negative a.
CeilDiv(a, b) == -FloorDiv(-a, b)

\* new Date(ms).getHours()
getHours(ms) == FloorDiv(ms, 3600000) % 24

\* The clock time h:m:s.ms of the modelled day, as a Date value.
At(h, m, s, ms) == ((h * 60 + m) * 60 + s) * 1000 + ms

RECURSIVE SumSeq(_)
SumSeq(s) == IF s = <<>> THEN 0 ELSE Head(s) + SumSeq(Tail(s))

\* The elements of a finite set of integers as an ascending sequence.
RECURSIVE Ascending(_)
Ascending(S) ==
    IF S = {} THEN <<>>
    ELSE LET lo == CHOOSE x \in S : \A y \in S : x <= y
         IN <<lo>> \o Ascending(S \ {lo})

\* All sequences over S of length 0..k.
SeqsUpTo(S, k) == UNION {[1..m -> S] : m \in 0..k}

(***************************************************************************)
(* Inputs.  A stop is its time window (Date values) and service minutes.   *)
(***************************************************************************)
Stop(ws, we, svc) == [timeWindowStart |-> ws, timeWindowEnd |-> we, serviceMinutes |-> svc]

\* Stops the requests are built from: a morning, an afternoon and an evening
\* window, a window too short for its service, and a late-night window.
StopChoices ==
    { Stop(At(8, 0, 0, 0), At(12, 0, 0, 0), 5),
      Stop(At(12, 0, 0, 0), At(16, 0, 0, 0), 5),
      Stop(At(8, 0, 0, 0), At(8, 2, 0, 0), 5),
      Stop(At(16, 0, 0, 0), At(20, 0, 0, 0), 0),
      Stop(At(8, 20, 0, 0), At(9, 0, 0, 0), 0) }

\* Route start times a request may carry (absent, or a Date with milliseconds).
StartChoices == { <<>>, <<At(7, 30, 0, 500)>>, <<At(13, 0, 0, 0)>> }

\* Travel seconds between the depot and a stop.
TravelChoices == {300, 1800}

\* A duration matrix over nodes 0..m (depot 0), from one radius per stop:
\* travel passes the depot's neighbourhood, and the inbound direction of a
\* pair is a minute slower, so the matrix is not symmetric.
MatrixOf(r, m) ==
    [i \in 0..m |-> [j \in 0..m |->
        IF i = j THEN 0
        ELSE (IF i = 0 THEN 0 ELSE r[i]) + (IF j = 0 THEN 0 ELSE r[j])
             + (IF i > j THEN 60 ELSE 0)]]

MatrixChoices(m) == {MatrixOf(r, m) : r \in [1..m -> TravelChoices]}

\* matrix[i]?.[j] : the entry, or undefined outside the matrix.
Lookup(matrix, i, j) ==
    IF i \in DOMAIN matrix /\ j \in DOMAIN matrix[i] THEN <<matrix[i][j]>> ELSE <<>>

(***************************************************************************)
(* solveVRPTW and solveVRPTWTrafficAware.  Solver clocks are in seconds.   *)
(***************************************************************************)
\* A SolveInput: the matrix may cover fewer stops than serviceMinutes lists.
SolveInputs(maxStops) ==
    UNION {{[matrixSeconds |-> mx, stops |-> st, startTimeIso |-> t0, avoidRushHour |-> av] :
              mx \in UNION {MatrixChoices(m) : m \in {Len(st), Max(0, Len(st) - 1)}},
              t0 \in StartChoices, av \in BOOLEAN}
           : st \in SeqsUpTo(StopChoices, maxStops)}

\* serviceMinutes.map(m => Math.max(0, Math.round(m * 60)))
serviceSec(input, i) == Max(0, input.stops[i + 1].serviceMinutes * 60)

\* Math.floor(new Date(startIso).getTime() / 1000)
winStart(input, i) == FloorDiv(input.stops[i + 1].timeWindowStart, 1000)

winEnd(input, i) == FloorDiv(input.stops[i + 1].timeWindowEnd, 1000)

\* The state of one solver call at its entry.
SolverCall(fn, input) ==
    [pc |-> "entry", fn |-> fn, input |-> input, n |-> Len(input.stops),
     visited |-> [i \in 0..(Len(input.stops) - 1) |-> FALSE],
     order |-> <<>>, currentNode |-> 0, currentTime |-> 0, k |-> 0, threw |-> FALSE]

\* Mutant of ArgMinFirst: the scan compares with <=, so the last index with
\* the minimal score is kept.
ArgMinLast(C, score) ==
    IF C = {} THEN -1
    ELSE CHOOSE i \in C :
           \A j \in C : score[i] < score[j] \/ (score[i] = score[j] /\ i >= j)

\* The first index of C with the minimal score (the scan keeps the first
\* strict minimum), or -1 when the scan found no candidate.
ArgMinFirst(C, score) ==
    IF C = {} THEN -1
    ELSE CHOOSE i \in C :
           \A j \in C : score[i] < score[j] \/ (score[i] = score[j] /\ i <= j)

\* ---- solveVRPTW ----
\* matrixSeconds[currentNode][node]; undefined outside the matrix.
vrptwTravel(s, i) == Lookup(s.input.matrixSeconds, s.currentNode, i + 1)

\* Mutant of vrptwScore: lateness is added without the 1e9 penalty.
vrptwScoreNoPenalty(s, i) ==
    LET travel == vrptwTravel(s, i)[1]
        arrival == s.currentTime + travel
        wait == Max(0, winStart(s.input, i) - arrival)
        lateness == Max(0, arrival - winEnd(s.input, i))
    IN lateness + wait + travel

\* Lines 210-215.  An undefined travel makes the score NaN, and NaN is never
\* below bestScore, so such a stop is no candidate of the scan.
vrptwScore(s, i) ==
    LET travel == vrptwTravel(s, i)[1]
        arrival == s.currentTime + travel
        wait == Max(0, winStart(s.input, i) - arrival)
        lateness == Max(0, arrival - winEnd(s.input, i))
    IN (IF lateness > 0 THEN 1000000000 + lateness ELSE 0) + wait + travel

vrptwBestIdx(s) ==
    LET C == {i \in 0..(s.n - 1) : ~s.visited[i] /\ vrptwTravel(s, i) # <<>>}
    IN ArgMinFirst(C, [i \in C |-> vrptwScore(s, i)])

\* Lines 194-203.
vrptwEntry(s) ==
    [s EXCEPT !.currentNode = 0,
              !.currentTime = IF s.input.startTimeIso # <<>>
                              THEN FloorDiv(s.input.startTimeIso[1], 1000) ELSE 0,
              !.pc = IF s.n > 0 THEN "loop" ELSE "afterLoop"]

\* One pass of the for loop, lines 204-231.
vrptwIter(s) ==
    LET bestIdx == vrptwBestIdx(s)
    IN IF bestIdx = -1 THEN [s EXCEPT !.pc = "afterLoop"]
       ELSE LET travel == vrptwTravel(s, bestIdx)[1]
                reached == Max(s.currentTime + travel, winStart(s.input, bestIdx))
            IN [s EXCEPT !.currentTime = reached + serviceSec(s.input, bestIdx),
                         !.visited[bestIdx] = TRUE,
                         !.order = Append(s.order, bestIdx),
                         !.currentNode = bestIdx + 1,
                         !.k = s.k + 1,
                         !.pc = IF s.k + 1 < s.n THEN "loop" ELSE "afterLoop"]

\* Mutant of vrptwReturn: the fallback that appends the unvisited stops is lost.
vrptwReturnNoFallback(s) == [s EXCEPT !.pc = "done"]

\* Lines 232-236: the stops not visited are appended in index order.
vrptwReturn(s) ==
    [s EXCEPT !.order = IF Len(s.order) # s.n
                        THEN s.order \o Ascending({i \in 0..(s.n - 1) : ~s.visited[i]})
                        ELSE s.order,
              !.pc = "done"]

\* ---- solveVRPTWTrafficAware ----
\* input.matrixSeconds[currentNode + 1]?.[i + 1] ?? 0
trafficTravel(s, i) ==
    LET e == Lookup(s.input.matrixSeconds, s.currentNode + 1, i + 1)
    IN IF e = <<>> THEN 0 ELSE e[1]

\* Lines 117-119.
trafficServiceStart(s, i) == Max(s.currentTime + trafficTravel(s, i), winStart(s.input, i))

\* Line 122: the service can complete before the window closes.
trafficFeasible(s, i) == ~(trafficServiceStart(s, i) + serviceSec(s.input, i) > winEnd(s.input, i))

\* Line 150.
isRushHour(arrivalHour) ==
    (arrivalHour >= 8 /\ arrivalHour < 10) \/ (arrivalHour >= 16 /\ arrivalHour < 19)

\* Mutant of trafficScore2: in rush hour the penalty replaces the base score
\* instead of being added to it.
trafficScore2PenaltyReplaces(s, i) ==
    LET travelTime == trafficTravel(s, i)
        arrivalTime == s.currentTime + travelTime
        wait == Max(0, winStart(s.input, i) - arrivalTime)
    IN IF s.input.avoidRushHour /\ isRushHour(getHours(arrivalTime * 1000))
       THEN travelTime
       ELSE 2 * (travelTime + wait)

\* Lines 139-156, doubled so that the penalty travelTime * 0.5 stays an integer.
trafficScore2(s, i) ==
    LET travelTime == trafficTravel(s, i)
        arrivalTime == s.currentTime + travelTime
        wait == Max(0, winStart(s.input, i) - arrivalTime)
    IN 2 * (travelTime + wait)
       + (IF s.input.avoidRushHour /\ isRushHour(getHours(arrivalTime * 1000))
          THEN travelTime ELSE 0)

trafficBestIdx(s) ==
    LET C == {i \in 0..(s.n - 1) : ~s.visited[i] /\ trafficFeasible(s, i)}
    IN ArgMinFirst(C, [i \in C |-> trafficScore2(s, i)])

\* Lines 85-107.  Without a start time the clock is the earliest window start
\* minus an hour; Math.min() of no arguments is Infinity, and the log line 102
\* calls toISOString() on that invalid Date, which raises a RangeError.
trafficEntry(s) ==
    IF s.input.startTimeIso # <<>>
    THEN [s EXCEPT !.currentNode = -1,
                   !.currentTime = FloorDiv(s.input.startTimeIso[1], 1000),
                   !.pc = IF s.n > 0 THEN "loop" ELSE "afterLoop"]
    ELSE IF s.n = 0
         THEN [s EXCEPT !.currentNode = -1, !.threw = TRUE, !.pc = "done"]
         ELSE LET earliestWindow ==
                    CHOOSE w \in {winStart(s.input, i) : i \in 0..(s.n - 1)} :
                      \A i \in 0..(s.n - 1) : w <= winStart(s.input, i)
              IN [s EXCEPT !.currentNode = -1,
                           !.currentTime = earliestWindow - 3600,
                           !.pc = "loop"]

\* One pass of the while loop, lines 109-179.
trafficIter(s) ==
    LET bestIdx == trafficBestIdx(s)
    IN IF bestIdx = -1 THEN [s EXCEPT !.pc = "afterLoop"]
       ELSE [s EXCEPT !.currentTime = trafficServiceStart(s, bestIdx) + serviceSec(s.input, bestIdx),
                      !.visited[bestIdx] = TRUE,
                      !.order = Append(s.order, bestIdx),
                      !.currentNode = bestIdx,
                      !.pc = IF Len(s.order) + 1 < s.n THEN "loop" ELSE "afterLoop"]

\* Line 181.
trafficReturn(s) == [s EXCEPT !.pc = "done"]

\* ---- the solver calls, step by step ----
SolverCalls(maxStops) ==
    {SolverCall("solveVRPTW", in) : in \in {x \in SolveInputs(maxStops) : ~x.avoidRushHour}}
    \cup {SolverCall("solveVRPTWTrafficAware", in) : in \in SolveInputs(maxStops)}

InitSolver ==
    /\ solver \in SolverCalls(MaxStops)
    /\ eta = [pc |-> "idle"]
    /\ split = [pc |-> "idle"]
    /\ refine = [pc |-> "idle"]
    /\ optimize = [pc |-> "idle"]
    /\ tracking = [pc |-> "idle"]

SolveVRPTWEntry ==
    /\ solver.pc = "entry" /\ solver.fn = "solveVRPTW"
    /\ solver' = vrptwEntry(solver)
    /\ UNCHANGED <<eta, split, refine, optimize, tracking>>

SolveVRPTWIter ==
    /\ solver.pc = "loop" /\ solver.fn = "solveVRPTW"
    /\ solver' = vrptwIter(solver)
    /\ UNCHANGED <<eta, split, refine, optimize, tracking>>

SolveVRPTWReturn ==
    /\ solver.pc = "afterLoop" /\ solver.fn = "solveVRPTW"
    /\ solver' = vrptwReturn(solver)
    /\ UNCHANGED <<eta, split, refine, optimize, tracking>>

TrafficAwareEntry ==
    /\ solver.pc = "entry" /\ solver.fn = "solveVRPTWTrafficAware"
    /\ solver' = trafficEntry(solver)
    /\ UNCHANGED <<eta, split, refine, optimize, tracking>>

TrafficAwareIter ==
    /\ solver.pc = "loop" /\ solver.fn = "solveVRPTWTrafficAware"
    /\ solver' = trafficIter(solver)
    /\ UNCHANGED <<eta, split, refine, optimize, tracking>>

TrafficAwareReturn ==
    /\ solver.pc = "afterLoop" /\ solver.fn = "solveVRPTWTrafficAware"
    /\ solver' = trafficReturn(solver)
    /\ UNCHANGED <<eta, split, refine, optimize, tracking>>

NextSolver ==
    \/ SolveVRPTWEntry
    \/ SolveVRPTWIter
    \/ SolveVRPTWReturn
    \/ TrafficAwareEntry
    \/ TrafficAwareIter
    \/ TrafficAwareReturn

SpecSolver == InitSolver /\ [][NextSolver]_vars

\* Run to completion, as a caller sees the two functions.
RECURSIVE RunSolver(_)
RunSolver(s) ==
    IF s.pc = "done" THEN s
    ELSE IF s.fn = "solveVRPTW"
         THEN RunSolver(IF s.pc = "entry" THEN vrptwEntry(s)
                        ELSE IF s.pc = "loop" THEN vrptwIter(s) ELSE vrptwReturn(s))
         ELSE RunSolver(IF s.pc = "entry" THEN trafficEntry(s)
                        ELSE IF s.pc = "loop" THEN trafficIter(s) ELSE trafficReturn(s))

(***************************************************************************)
(* computeEtas: the ETA / timing simulator.                                *)
(***************************************************************************)
WAIT_THRESHOLD_SECONDS == 25 * 60

\* Mutant of getTimePeriod: afternoon and evening are one period.
getTimePeriodNoEvening(isoString) ==
    LET hour == getHours(isoString)
    IN IF hour >= 7 /\ hour < 12 THEN 1
       ELSE IF hour >= 12 /\ hour < 20 THEN 2
       ELSE 0

getTimePeriod(isoString) ==
    LET hour == getHours(isoString)
    IN IF hour >= 7 /\ hour < 12 THEN 1
       ELSE IF hour >= 12 /\ hour < 16 THEN 2
       ELSE IF hour >= 16 /\ hour < 20 THEN 3
       ELSE 0

isDifferentTimePeriod(timeWindow1, timeWindow2) ==
    getTimePeriod(timeWindow1) # getTimePeriod(timeWindow2)

\* Mutant of OptimizedStop: the entry's service minutes are reset to 0, as a
\* depot-return marker's are.
OptimizedStopNoService(id, stop, etaIso, delayMin, travelSec, waitSeconds) ==
    [id |-> id, timeWindowStart |-> stop.timeWindowStart,
     timeWindowEnd |-> stop.timeWindowEnd, serviceMinutes |-> 0,
     etaIso |-> etaIso, arrivalDelayMinutes |-> delayMin,
     travelSecondsFromPrev |-> travelSec, waitSecondsBeforeWindow |-> waitSeconds,
     isDepotReturn |-> FALSE]

\* An emitted entry: a real stop (...stop plus the computed fields).
OptimizedStop(id, stop, etaIso, delayMin, travelSec, waitSeconds) ==
    [id |-> id, timeWindowStart |-> stop.timeWindowStart,
     timeWindowEnd |-> stop.timeWindowEnd, serviceMinutes |-> stop.serviceMinutes,
     etaIso |-> etaIso, arrivalDelayMinutes |-> delayMin,
     travelSecondsFromPrev |-> travelSec, waitSecondsBeforeWindow |-> waitSeconds,
     isDepotReturn |-> FALSE]

\* The synthetic 'Return to Depot' marker.
DepotReturn(id, arrivalAtDepot, returnToDepotSec) ==
    [id |-> id, timeWindowStart |-> arrivalAtDepot, timeWindowEnd |-> arrivalAtDepot,
     serviceMinutes |-> 0, etaIso |-> arrivalAtDepot, arrivalDelayMinutes |-> 0,
     travelSecondsFromPrev |-> returnToDepotSec, waitSecondsBeforeWindow |-> 0,
     isDepotReturn |-> TRUE]

\* Lines 47-50.
etaWaitSeconds(arrivalAtStop, windowStart) ==
    IF arrivalAtStop < windowStart THEN FloorDiv(windowStart - arrivalAtStop, 1000) ELSE 0

\* Mutant of shouldReturnToDepot: only the period rule (the wait rule is lost).
shouldReturnToDepotPeriodOnly(waitSeconds, idx, orderedStops) ==
    idx > 0 /\ isDifferentTimePeriod(orderedStops[idx].timeWindowStart,
                                     orderedStops[idx + 1].timeWindowStart)

\* Mutant of shouldReturnToDepot: only the wait rule (the period rule is lost).
shouldReturnToDepotWaitOnly(waitSeconds, idx, orderedStops) ==
    waitSeconds > WAIT_THRESHOLD_SECONDS

\* Lines 55-56.
shouldReturnToDepot(waitSeconds, idx, orderedStops) ==
    \/ waitSeconds > WAIT_THRESHOLD_SECONDS
    \/ (idx > 0 /\ isDifferentTimePeriod(orderedStops[idx].timeWindowStart,
                                         orderedStops[idx + 1].timeWindowStart))

\* Lines 27-34: the call at its entry.  params.orderedStops[k] has matrix
\* node params.originalIndices[k] + 1.
EtaCall(params) ==
    [pc |-> "loop", params |-> params, idx |-> 0,
     currentTime |-> params.startTimeIso, prevMatrixNode |-> 0,
     totalDistance |-> 0, totalDuration |-> 0, result |-> <<>>]

\* Mutant of etaStep: the lateness is rounded down to whole minutes
\* (Math.floor in place of Math.ceil at line 103).
etaStepDelayRoundedDown(e) ==
    LET idx == e.idx
        stop == e.params.orderedStops[idx + 1]
        matrixNodeIndex == e.params.originalIndices[idx + 1] + 1
        dur == e.params.durationsSeconds
        dist == e.params.distancesMeters
        travelSec == dur[e.prevMatrixNode][matrixNodeIndex]
        travelMeters == dist[e.prevMatrixNode][matrixNodeIndex]
        arrivalAtStop == e.currentTime + travelSec * 1000
        windowStart == stop.timeWindowStart
        windowEnd == stop.timeWindowEnd
        waitSeconds == etaWaitSeconds(arrivalAtStop, windowStart)
        more == IF idx + 1 < Len(e.params.orderedStops) THEN "loop" ELSE "afterLoop"
    IN IF shouldReturnToDepot(waitSeconds, idx, e.params.orderedStops)
       THEN LET returnToDepotSec == dur[matrixNodeIndex][0]
                arrivalAtDepot == arrivalAtStop + returnToDepotSec * 1000
                travelFromDepotSec == dur[0][matrixNodeIndex]
            IN [e EXCEPT
                  !.totalDistance = e.totalDistance + travelMeters
                                    + dist[matrixNodeIndex][0] + dist[0][matrixNodeIndex],
                  !.totalDuration = e.totalDuration + travelSec
                                    + returnToDepotSec + travelFromDepotSec,
                  !.currentTime = windowStart + stop.serviceMinutes * 60000,
                  !.prevMatrixNode = matrixNodeIndex,
                  !.result = e.result
                      \o << DepotReturn(<<"depot-return", idx>>, arrivalAtDepot, returnToDepotSec),
                            OptimizedStop(stop.id, stop, windowStart, 0, travelFromDepotSec, 0) >>,
                  !.idx = idx + 1, !.pc = more]
       ELSE LET arrival == Max(arrivalAtStop, windowStart)
                delayMin == Max(0, FloorDiv(arrival - windowEnd, 60000))
            IN [e EXCEPT
                  !.totalDistance = e.totalDistance + travelMeters,
                  !.totalDuration = e.totalDuration + travelSec
                                    + (IF arrivalAtStop < windowStart THEN waitSeconds ELSE 0),
                  !.currentTime = arrival + stop.serviceMinutes * 60000,
                  !.prevMatrixNode = matrixNodeIndex,
                  !.result = Append(e.result,
                      OptimizedStop(stop.id, stop, arrival, delayMin, travelSec, waitSeconds)),
                  !.idx = idx + 1, !.pc = more]

\* One call of the forEach callback, lines 35-119 (idx counts from 0).
etaStep(e) ==
    LET idx == e.idx
        stop == e.params.orderedStops[idx + 1]
        matrixNodeIndex == e.params.originalIndices[idx + 1] + 1
        dur == e.params.durationsSeconds
        dist == e.params.distancesMeters
        travelSec == dur[e.prevMatrixNode][matrixNodeIndex]
        travelMeters == dist[e.prevMatrixNode][matrixNodeIndex]
        arrivalAtStop == e.currentTime + travelSec * 1000
        windowStart == stop.timeWindowStart
        windowEnd == stop.timeWindowEnd
        waitSeconds == etaWaitSeconds(arrivalAtStop, windowStart)
        more == IF idx + 1 < Len(e.params.orderedStops) THEN "loop" ELSE "afterLoop"
    IN IF shouldReturnToDepot(waitSeconds, idx, e.params.orderedStops)
       THEN LET returnToDepotSec == dur[matrixNodeIndex][0]
                arrivalAtDepot == arrivalAtStop + returnToDepotSec * 1000
                travelFromDepotSec == dur[0][matrixNodeIndex]
            IN [e EXCEPT
                  !.totalDistance = e.totalDistance + travelMeters
                                    + dist[matrixNodeIndex][0] + dist[0][matrixNodeIndex],
                  !.totalDuration = e.totalDuration + travelSec
                                    + returnToDepotSec + travelFromDepotSec,
                  !.currentTime = windowStart + stop.serviceMinutes * 60000,
                  !.prevMatrixNode = matrixNodeIndex,
                  !.result = e.result
                      \o << DepotReturn(<<"depot-return", idx>>, arrivalAtDepot, returnToDepotSec),
                            OptimizedStop(stop.id, stop, windowStart, 0, travelFromDepotSec, 0) >>,
                  !.idx = idx + 1, !.pc = more]
       ELSE LET arrival == Max(arrivalAtStop, windowStart)
                delayMin == Max(0, CeilDiv(arrival - windowEnd, 60000))
            IN [e EXCEPT
                  !.totalDistance = e.totalDistance + travelMeters,
                  !.totalDuration = e.totalDuration + travelSec
                                    + (IF arrivalAtStop < windowStart THEN waitSeconds ELSE 0),
                  !.currentTime = arrival + stop.serviceMinutes * 60000,
                  !.prevMatrixNode = matrixNodeIndex,
                  !.result = Append(e.result,
                      OptimizedStop(stop.id, stop, arrival, delayMin, travelSec, waitSeconds)),
                  !.idx = idx + 1, !.pc = more]

\* Mutant of etaFinish: the final return to the depot is not emitted.
etaFinishNoFinalReturn(e) == [e EXCEPT !.pc = "done"]

\* Mutant of etaFinish: the final return is emitted but its travel time is
\* not added to the total duration.
etaFinishReturnNotCounted(e) ==
    IF Len(e.params.orderedStops) > 0 /\ e.prevMatrixNode > 0
    THEN LET returnToDepotSec == e.params.durationsSeconds[e.prevMatrixNode][0]
             arrivalAtDepot == e.currentTime + returnToDepotSec * 1000
         IN [e EXCEPT
               !.totalDistance = e.totalDistance + e.params.distancesMeters[e.prevMatrixNode][0],
               !.result = Append(e.result,
                   DepotReturn(<<"depot-return-final">>, arrivalAtDepot, returnToDepotSec)),
               !.pc = "done"]
    ELSE [e EXCEPT !.pc = "done"]

\* Lines 121-151: the final return to the depot, and the returned totals.
etaFinish(e) ==
    IF Len(e.params.orderedStops) > 0 /\ e.prevMatrixNode > 0
    THEN LET returnToDepotSec == e.params.durationsSeconds[e.prevMatrixNode][0]
             arrivalAtDepot == e.currentTime + returnToDepotSec * 1000
         IN [e EXCEPT
               !.totalDistance = e.totalDistance + e.params.distancesMeters[e.prevMatrixNode][0],
               !.totalDuration = e.totalDuration + returnToDepotSec,
               !.result = Append(e.result,
                   DepotReturn(<<"depot-return-final">>, arrivalAtDepot, returnToDepotSec)),
               !.pc = "done"]
    ELSE [e EXCEPT !.pc = "done"]

\* computeEtas run to completion.
RECURSIVE computeEtas(_)
computeEtas(e) ==
    IF e.pc = "done" THEN e
    ELSE computeEtas(IF e.pc = "loop" /\ e.idx < Len(e.params.orderedStops)
                     THEN etaStep(e) ELSE etaFinish(e))

\* The stop at original index i, carrying its identity.
WithId(stop, i) == [id |-> <<"stop", i>>] @@ stop

\* All orders of the indices 0..n-1.
VisitingOrders(n) == {p \in [1..n -> 0..(n - 1)] : \A a, b \in 1..n : p[a] = p[b] => a = b}

\* Start times of a simulation (Dates, some with milliseconds).
EtaStartChoices ==
    { At(7, 30, 0, 0), At(7, 29, 59, 500), At(7, 50, 0, 500), At(13, 0, 0, 0) }

\* distancesMeters of the same journeys, at ten metres a second.
MetersOf(dur) == [i \in DOMAIN dur |-> [j \in DOMAIN dur[i] |-> 10 * dur[i][j]]]

\* The calls of computeEtas: stops (in original order), a visiting order, a
\* matrix over the depot and the stops, and a start time.
EtaParams(maxStops) ==
    UNION {{[startTimeIso |-> t0,
             orderedStops |-> [k \in 1..Len(st) |-> WithId(st[p[k] + 1], p[k])],
             originalIndices |-> p,
             durationsSeconds |-> mx, distancesMeters |-> MetersOf(mx)] :
              p \in VisitingOrders(Len(st)), mx \in MatrixChoices(Len(st)),
              t0 \in EtaStartChoices}
           : st \in SeqsUpTo(StopChoices, maxStops)}

InitEta ==
    /\ eta \in {EtaCall(params) : params \in EtaParams(MaxStops)}
    /\ solver = [pc |-> "idle"]
    /\ split = [pc |-> "idle"]
    /\ refine = [pc |-> "idle"]
    /\ optimize = [pc |-> "idle"]
    /\ tracking = [pc |-> "idle"]

ComputeEtasStep ==
    /\ eta.pc = "loop" /\ eta.idx < Len(eta.params.orderedStops)
    /\ eta' = etaStep(eta)
    /\ UNCHANGED <<solver, split, refine, optimize, tracking>>

ComputeEtasFinish ==
    /\ \/ eta.pc = "afterLoop"
       \/ eta.pc = "loop" /\ eta.idx >= Len(eta.params.orderedStops)
    /\ eta' = etaFinish(eta)
    /\ UNCHANGED <<solver, split, refine, optimize, tracking>>

NextEta ==
    \/ ComputeEtasStep
    \/ ComputeEtasFinish

SpecEta == InitEta /\ [][NextEta]_vars

(***************************************************************************)
(* splitRoutes and createRouteResult: the route splitter.                  *)
(***************************************************************************)
MaxSplitStops == 3

\* Mutant of createRouteResult: every entry of the leg counts as a drop, the
\* depot returns included.
createRouteResultCountsAll(index, stops) ==
    LET totalDuration ==
            SumSeq([k \in 1..Len(stops) |->
                      stops[k].travelSecondsFromPrev + stops[k].waitSecondsBeforeWindow
                      + stops[k].serviceMinutes * 60])
        costCents == CeilDiv(totalDuration * 3000, 3600)
        dropCount == Len(stops)
    IN [id |-> index, stops |-> stops,
        totalDurationSeconds |-> totalDuration, totalDistanceMeters |-> 0,
        estimatedCostCents |-> costCents,
        averageCostPerDropCents |-> IF dropCount > 0 THEN CeilDiv(costCents, dropCount) ELSE 0]

\* Lines 249-288.  Costs are in cents: Math.ceil(hours * 30 * 100) is the
\* ceiling of totalDuration * 3000 / 3600.
createRouteResult(index, stops) ==
    LET totalDuration ==
            SumSeq([k \in 1..Len(stops) |->
                      stops[k].travelSecondsFromPrev + stops[k].waitSecondsBeforeWindow
                      + stops[k].serviceMinutes * 60])
        costCents == CeilDiv(totalDuration * 3000, 3600)
        dropCount == Cardinality({k \in 1..Len(stops) : ~stops[k].isDepotReturn})
    IN [id |-> index, stops |-> stops,
        totalDurationSeconds |-> totalDuration, totalDistanceMeters |-> 0,
        estimatedCostCents |-> costCents,
        averageCostPerDropCents |-> IF dropCount > 0 THEN CeilDiv(costCents, dropCount) ELSE 0]

\* Lines 223-227: the call at its entry.
SplitCall(stops) ==
    [pc |-> "loop", stops |-> stops, i |-> 1, routes |-> <<>>,
     currentStops |-> <<>>, routeIndex |-> 1]

\* Mutant of splitStep: the leg is closed before the depot return is pushed,
\* so the depot return opens the next leg.
splitStepReturnOpensLeg(sp) ==
    LET stop == sp.stops[sp.i]
    IN IF stop.isDepotReturn /\ Len(sp.currentStops) > 0
       THEN [sp EXCEPT !.routes = Append(sp.routes, createRouteResult(sp.routeIndex, sp.currentStops)),
                       !.routeIndex = sp.routeIndex + 1,
                       !.currentStops = <<stop>>,
                       !.i = sp.i + 1]
       ELSE [sp EXCEPT !.currentStops = Append(sp.currentStops, stop), !.i = sp.i + 1]

\* One pass of the for loop, lines 229-239.
splitStep(sp) ==
    LET stop == sp.stops[sp.i]
        pushed == Append(sp.currentStops, stop)
    IN IF stop.isDepotReturn
       THEN [sp EXCEPT !.routes = Append(sp.routes, createRouteResult(sp.routeIndex, pushed)),
                       !.routeIndex = sp.routeIndex + 1,
                       !.currentStops = <<>>,
                       !.i = sp.i + 1]
       ELSE [sp EXCEPT !.currentStops = pushed, !.i = sp.i + 1]

\* Lines 241-246.
splitFinish(sp) ==
    IF Len(sp.currentStops) > 0
    THEN [sp EXCEPT !.routes = Append(sp.routes, createRouteResult(sp.routeIndex, sp.currentStops)),
                    !.routeIndex = sp.routeIndex + 1,
                    !.pc = "done"]
    ELSE [sp EXCEPT !.pc = "done"]

\* splitRoutes run to completion.
RECURSIVE splitRoutes(_)
splitRoutes(sp) ==
    IF sp.pc = "done" THEN sp
    ELSE splitRoutes(IF sp.i <= Len(sp.stops) THEN splitStep(sp) ELSE splitFinish(sp))

\* Entries a stop sequence handed to the splitter is built from.
SplitEntryChoices ==
    { DepotReturn(<<"depot-return">>, At(9, 0, 0, 0), 300),
      OptimizedStop(<<"stop", 0>>, Stop(At(8, 0, 0, 0), At(12, 0, 0, 0), 5), At(8, 30, 0, 0), 0, 300, 0),
      OptimizedStop(<<"stop", 1>>, Stop(At(8, 0, 0, 0), At(12, 0, 0, 0), 0), At(8, 0, 0, 0), 0, 1800, 120) }

InitSplit ==
    /\ split \in {SplitCall(stops) : stops \in SeqsUpTo(SplitEntryChoices, MaxSplitStops)}
    /\ solver = [pc |-> "idle"]
    /\ eta = [pc |-> "idle"]
    /\ refine = [pc |-> "idle"]
    /\ optimize = [pc |-> "idle"]
    /\ tracking = [pc |-> "idle"]

SplitRoutesStep ==
    /\ split.pc = "loop" /\ split.i <= Len(split.stops)
    /\ split' = splitStep(split)
    /\ UNCHANGED <<solver, eta, refine, optimize, tracking>>

SplitRoutesFinish ==
    /\ split.pc = "loop" /\ split.i > Len(split.stops)
    /\ split' = splitFinish(split)
    /\ UNCHANGED <<solver, eta, refine, optimize, tracking>>

NextSplit ==
    \/ SplitRoutesStep
    \/ SplitRoutesFinish

SpecSplit == InitSplit /\ [][NextSplit]_vars

(***************************************************************************)
(* refineRouteWithTraffic, getSegmentDuration and POST refine-traffic.     *)
(* GOOGLE_MAPS_API_KEY is taken as configured.                             *)
(***************************************************************************)
MaxRoutes == 2

\* Lengths of the routes a request carries.
RouteLengths == 0..2

\* Seconds between a place and the depot.
Radius(loc) == IF loc = "depot" THEN 0 ELSE IF loc = "a" THEN 300 ELSE 1800

\* What the live directions service answers for one segment.  The answer is
\* a function of the request: under "congested" a departure in the rush
\* hours takes half as long again, under "noTrafficData" the leg carries no
\* duration_in_traffic.
DirectionsResponse(profile, origin, destination, departureTime) ==
    LET base == IF origin = destination THEN 0 ELSE Radius(origin) + Radius(destination)
    IN [duration |-> base,
        duration_in_traffic |->
            IF profile = "noTrafficData" THEN <<>>
            ELSE <<base + (IF isRushHour(getHours(FloorDiv(departureTime, 1000) * 1000))
                           THEN base \div 2 ELSE 0)>>,
        distance |-> 10 * base]

\* Ways a segment query fails: fetch rejects, res.ok is false, data.status is
\* not OK, data.routes is empty.
SegmentFailures == {"fetch failed", "request failed", "status not OK", "No routes found"}

\* Lines 185-192: leg.duration_in_traffic?.value || leg.duration.value.
getSegmentDuration(leg) ==
    [duration |-> leg.duration,
     durationInTraffic |-> IF leg.duration_in_traffic # <<>> /\ leg.duration_in_traffic[1] # 0
                           THEN leg.duration_in_traffic[1] ELSE leg.duration,
     distance |-> leg.distance]

\* A stop as the refinement receives it: an OptimizedStop with its place.
At_(loc, x) == [loc |-> loc] @@ x

RefineStopChoices ==
    { At_("depot", DepotReturn(<<"depot-return">>, At(9, 0, 0, 0), 300)),
      At_("a", OptimizedStop(<<"stop", 0>>, Stop(At(8, 0, 0, 0), At(12, 0, 0, 0), 5),
                             At(8, 0, 0, 0), 0, 300, 0)),
      At_("b", OptimizedStop(<<"stop", 1>>, Stop(At(12, 0, 0, 0), At(16, 0, 0, 0), 0),
                             At(12, 0, 0, 0), 0, 1800, 0)) }

RouteChoices == UNION {[1..m -> RefineStopChoices] : m \in RouteLengths}

\* body.vehicleStartTimeIso
RefineStartChoices ==
    { At(7, 29, 59, 500), At(7, 30, 0, 0), At(11, 55, 30, 0), At(13, 0, 0, 0) }

\* The request bodies: routes, or a flat stop list, or neither.
RefineBodies(maxRoutes) ==
    {[routes |-> rs, stops |-> <<>>, vehicleStartTimeIso |-> t0] :
        rs \in UNION {[1..m -> RouteChoices] : m \in 1..maxRoutes}, t0 \in RefineStartChoices}
    \cup {[routes |-> <<>>, stops |-> st, vehicleStartTimeIso |-> t0] :
        st \in RouteChoices, t0 \in RefineStartChoices}

\* Mutant of nextRouteStartTime: every route is refined from the driver's
\* start time, as if the routes were driven in parallel.
nextRouteStartTimeParallel(routeStartTime, refined) == routeStartTime

\* part_012 line 47.
nextRouteStartTime(routeStartTime, refined) ==
    routeStartTime + refined.totalDurationSeconds * 1000

\* The request at the handler's entry.
RefineRequest(body, profile) ==
    [pc |-> "request", body |-> body, profile |-> profile, mode |-> "none",
     driverStartTime |-> body.vehicleStartTimeIso,
     routeStartTime |-> body.vehicleStartTimeIso,
     r |-> 1, refinedRoutes |-> <<>>, totalDuration |-> 0, totalDistance |-> 0,
     response |-> [status |-> 0],
     call |-> [orderedStops |-> <<>>, driverStartTime |-> 0, i |-> 0, currentTime |-> 0,
               refinedStops |-> <<>>, totalDuration |-> 0, totalDistance |-> 0,
               totalTrafficDelay |-> 0, returnSegment |-> <<>>],
     refined |-> <<>>]

\* part_012 lines 5-26 and 61-88: which branch the request takes.
postEntry(q) ==
    IF Len(q.body.routes) > 0 THEN [q EXCEPT !.mode = "routes", !.pc = "call"]
    ELSE IF Len(q.body.stops) > 0 THEN [q EXCEPT !.mode = "stops", !.pc = "call"]
    ELSE [q EXCEPT !.pc = "responded",
                   !.response = [status |-> 400, code |-> "INPUT_INVALID"]]

\* The stops and start time of the call being made (lines 29 and 63).
CallStops(q) == IF q.mode = "routes" THEN q.body.routes[q.r] ELSE q.body.stops

CallStart(q) == IF q.mode = "routes" THEN q.routeStartTime ELSE q.driverStartTime

\* part_006 lines 36-53.
refineEntry(q) ==
    LET fresh == [orderedStops |-> CallStops(q), driverStartTime |-> CallStart(q),
                  i |-> 0, currentTime |-> CallStart(q), refinedStops |-> <<>>,
                  totalDuration |-> 0, totalDistance |-> 0, totalTrafficDelay |-> 0,
                  returnSegment |-> <<>>]
    IN IF Len(CallStops(q)) = 0
       THEN [q EXCEPT !.call = fresh, !.pc = "returned",
                      !.refined = <<[orderedStops |-> <<>>, totalDurationSeconds |-> 0,
                                     totalDistanceMeters |-> 0, trafficDelaySeconds |-> 0]>>]
       ELSE [q EXCEPT !.call = fresh, !.pc = "segment", !.refined = <<>>]

\* The place the segment to stop i starts from (line 59).
prevLocation(c) == IF c.i = 0 THEN "depot" ELSE c.orderedStops[c.i].loc

\* One pass of the loop, lines 56-116, with the segment the service answered.
refineSegment(c, segmentData) ==
    LET stop == c.orderedStops[c.i + 1]
        trafficDelay == Max(0, segmentData.durationInTraffic - segmentData.duration)
        travelSeconds == segmentData.durationInTraffic
        arrivalTime == c.currentTime + travelSeconds * 1000
        windowStart == stop.timeWindowStart
        windowEnd == stop.timeWindowEnd
        waitSeconds == IF arrivalTime < windowStart
                       THEN FloorDiv(windowStart - arrivalTime, 1000) ELSE 0
        serviceStart == IF waitSeconds > 0 THEN windowStart ELSE arrivalTime
        serviceTimeSeconds == stop.serviceMinutes * 60
        serviceEnd == serviceStart + serviceTimeSeconds * 1000
    IN IF stop.isDepotReturn
       THEN [c EXCEPT
               !.totalTrafficDelay = c.totalTrafficDelay + trafficDelay,
               !.totalDistance = c.totalDistance + segmentData.distance,
               !.refinedStops = Append(c.refinedStops,
                   [stop EXCEPT !.travelSecondsFromPrev = travelSeconds,
                                !.waitSecondsBeforeWindow = 0,
                                !.etaIso = arrivalTime,
                                !.arrivalDelayMinutes = 0]),
               !.totalDuration = c.totalDuration + travelSeconds,
               !.currentTime = arrivalTime,
               !.i = c.i + 1]
       ELSE [c EXCEPT
               !.totalTrafficDelay = c.totalTrafficDelay + trafficDelay,
               !.totalDistance = c.totalDistance + segmentData.distance,
               !.refinedStops = Append(c.refinedStops,
                   [stop EXCEPT !.travelSecondsFromPrev = travelSeconds,
                                !.waitSecondsBeforeWindow = waitSeconds,
                                !.etaIso = arrivalTime,
                                !.arrivalDelayMinutes =
                                    IF waitSeconds > 0 THEN 0
                                    ELSE Max(0, FloorDiv(arrivalTime - windowEnd, 60000))]),
               !.totalDuration = c.totalDuration + travelSeconds + waitSeconds
                                 + serviceTimeSeconds,
               !.currentTime = serviceEnd,
               !.i = c.i + 1]

\* Line 121: the last stop is no depot return, so the return is queried.
needsFinalReturn(c) == ~c.orderedStops[Len(c.orderedStops)].isDepotReturn

\* Lines 118-140, with the return segment when one was queried.
refineReturn(c, returnSegment) ==
    [orderedStops |-> c.refinedStops,
     totalDurationSeconds |->
        c.totalDuration + (IF returnSegment = <<>> THEN 0 ELSE returnSegment[1].durationInTraffic),
     totalDistanceMeters |->
        c.totalDistance + (IF returnSegment = <<>> THEN 0 ELSE returnSegment[1].distance),
     trafficDelaySeconds |->
        c.totalTrafficDelay
        + (IF returnSegment = <<>> THEN 0
           ELSE Max(0, returnSegment[1].durationInTraffic - returnSegment[1].duration))]

\* part_012 lines 31-41: the route built from a refined call (costs in cents).
refinedRouteResult(id, refined) ==
    LET costCents == CeilDiv(refined.totalDurationSeconds * 3000, 3600)
    IN [id |-> id, stops |-> refined.orderedStops,
        totalDurationSeconds |-> refined.totalDurationSeconds,
        totalDistanceMeters |-> refined.totalDistanceMeters,
        estimatedCostCents |-> costCents,
        averageCostPerDropCents |->
            IF Len(refined.orderedStops) > 0
            THEN CeilDiv(costCents, Len(refined.orderedStops)) ELSE 0]

\* part_012 lines 31-47: the refined route is recorded and the next route's
\* start time is set.
postRouteDone(q) ==
    LET refined == q.refined[1]
    IN [q EXCEPT
          !.refinedRoutes = Append(q.refinedRoutes, refinedRouteResult(q.r, refined)),
          !.totalDuration = q.totalDuration + refined.totalDurationSeconds,
          !.totalDistance = q.totalDistance + refined.totalDistanceMeters,
          !.routeStartTime = nextRouteStartTime(q.routeStartTime, refined),
          !.r = q.r + 1,
          !.pc = IF q.r < Len(q.body.routes) THEN "call" ELSE "respond"]

\* All stops of the refined routes, in order (line 51).
RECURSIVE FlatStops(_)
FlatStops(routes) ==
    IF routes = <<>> THEN <<>> ELSE Head(routes).stops \o FlatStops(Tail(routes))

\* part_012 lines 50-60 (routes) and 65-82 (flat stop list).
postRespond(q) ==
    IF q.mode = "routes"
    THEN [q EXCEPT !.pc = "responded",
                   !.response = [status |-> 200, orderedStops |-> FlatStops(q.refinedRoutes),
                                 totalDistanceMeters |-> q.totalDistance,
                                 totalDurationSeconds |-> q.totalDuration,
                                 driverStartTimeIso |-> q.driverStartTime,
                                 routes |-> q.refinedRoutes]]
    ELSE [q EXCEPT !.pc = "responded",
                   !.response = [status |-> 200, orderedStops |-> q.refined[1].orderedStops,
                                 totalDistanceMeters |-> q.refined[1].totalDistanceMeters,
                                 totalDurationSeconds |-> q.refined[1].totalDurationSeconds,
                                 driverStartTimeIso |-> q.driverStartTime,
                                 routes |-> <<refinedRouteResult("refined-route", q.refined[1])>>]]

\* Mutant of postCatch: the routes refined before the failure are returned.
postCatchPartial(q, message) ==
    [q EXCEPT !.pc = "responded",
              !.response = [status |-> 200, orderedStops |-> FlatStops(q.refinedRoutes),
                            routes |-> q.refinedRoutes, message |-> message]]

\* part_012 lines 89-95: an exception of the call ends the request.
postCatch(q, message) ==
    [q EXCEPT !.pc = "responded",
              !.response = [status |-> 500, code |-> "INTERNAL", message |-> message]]

InitRefine ==
    /\ refine \in {RefineRequest(body, profile) :
                      body \in RefineBodies(MaxRoutes),
                      profile \in {"congested", "noTrafficData"}}
    /\ solver = [pc |-> "idle"]
    /\ eta = [pc |-> "idle"]
    /\ split = [pc |-> "idle"]
    /\ optimize = [pc |-> "idle"]
    /\ tracking = [pc |-> "idle"]

RefinePostEntry ==
    /\ refine.pc = "request"
    /\ refine' = postEntry(refine)
    /\ UNCHANGED <<solver, eta, split, optimize, tracking>>

RefineCallEntry ==
    /\ refine.pc = "call"
    /\ refine' = refineEntry(refine)
    /\ UNCHANGED <<solver, eta, split, optimize, tracking>>

\* The segment query of the loop answers.
RefineSegment ==
    /\ refine.pc = "segment"
    /\ LET c == refine.call
           leg == DirectionsResponse(refine.profile, prevLocation(c),
                                     c.orderedStops[c.i + 1].loc, c.currentTime)
           next == refineSegment(c, getSegmentDuration(leg))
       IN refine' = [refine EXCEPT
                       !.call = next,
                       !.pc = IF next.i < Len(c.orderedStops) THEN "segment" ELSE "finalReturn"]
    /\ UNCHANGED <<solver, eta, split, optimize, tracking>>

\* Lines 118-140: the return segment (when needed) answers; the call returns.
RefineFinalReturn ==
    /\ refine.pc = "finalReturn"
    /\ LET c == refine.call
           returnSegment ==
               IF needsFinalReturn(c)
               THEN <<getSegmentDuration(
                        DirectionsResponse(refine.profile, c.orderedStops[Len(c.orderedStops)].loc,
                                           "depot", c.currentTime))>>
               ELSE <<>>
       IN refine' = [refine EXCEPT !.call.returnSegment = returnSegment,
                                   !.refined = <<refineReturn(c, returnSegment)>>,
                                   !.pc = "returned"]
    /\ UNCHANGED <<solver, eta, split, optimize, tracking>>

\* A segment query fails (lines 168-183): the exception leaves
\* refineRouteWithTraffic and reaches the handler's catch.
RefineSegmentFails ==
    /\ \/ refine.pc = "segment"
       \/ refine.pc = "finalReturn" /\ needsFinalReturn(refine.call)
    /\ \E failure \in SegmentFailures : refine' = postCatch(refine, failure)
    /\ UNCHANGED <<solver, eta, split, optimize, tracking>>

RefinePostRouteDone ==
    /\ refine.pc = "returned" /\ refine.mode = "routes"
    /\ refine' = postRouteDone(refine)
    /\ UNCHANGED <<solver, eta, split, optimize, tracking>>

RefinePostRespond ==
    /\ \/ refine.pc = "respond"
       \/ refine.pc = "returned" /\ refine.mode = "stops"
    /\ refine' = postRespond(refine)
    /\ UNCHANGED <<solver, eta, split, optimize, tracking>>

NextRefine ==
    \/ RefinePostEntry
    \/ RefineCallEntry
    \/ RefineSegment
    \/ RefineFinalReturn
    \/ RefineSegmentFails
    \/ RefinePostRouteDone
    \/ RefinePostRespond

SpecRefine == InitRefine /\ [][NextRefine]_vars

(***************************************************************************)
(* The optimize handlers (POST with solveVRPTWTrafficAware, POST with      *)
(* solveVRPTW), geocodeStopsIfNeeded and buildMatrix.  Polyline contents   *)
(* are left out of the response; ORS_API_KEY is taken as configured.       *)
(***************************************************************************)
MaxBodyStops == 2

\* The calendar day of a Date (getFullYear/getMonth/getDate, zone offset 0).
DayOf(ms) == FloorDiv(ms, 86400000)

\* A stop of a request body: lat and lng are numbers or missing, an address
\* is given or missing; radius stands for the place the stop is at.
BodyStop(id, stop, hasLatLng, hasAddress, radius) ==
    [id |-> id, timeWindowStart |-> stop.timeWindowStart,
     timeWindowEnd |-> stop.timeWindowEnd, serviceMinutes |-> stop.serviceMinutes,
     hasLatLng |-> hasLatLng, hasAddress |-> hasAddress, radius |-> radius]

BodyStopKinds ==
    { <<Stop(At(8, 0, 0, 0), At(12, 0, 0, 0), 5), 300>>,
      <<Stop(At(8, 0, 0, 0), At(8, 2, 0, 0), 5), 1800>>,
      <<Stop(At(12, 0, 0, 0), At(16, 0, 0, 0), 0), 300>> }

\* Coordinates given; address only; neither.
LocationKinds == { <<TRUE, FALSE>>, <<FALSE, TRUE>>, <<FALSE, FALSE>> }

BodyStopLists(maxStops) ==
    UNION {{[i \in 1..m |-> BodyStop(<<"stop", i - 1>>, k[i][1], l[i][1], l[i][2], k[i][2])] :
               k \in [1..m -> BodyStopKinds], l \in [1..m -> LocationKinds]}
           : m \in 0..maxStops}

\* body.vehicleStartTimeIso: absent, today, or another day than today.
VehicleStartChoices == { <<>>, <<At(7, 30, 0, 0)>>, <<86400000 + At(7, 30, 0, 0)>> }

\* new Date() while the request is handled.
NowChoices == { At(6, 0, 0, 0), At(9, 0, 0, 250) }

\* A request at the handler's entry.
OptimizeRequest(handler, stops, start, now) ==
    [pc |-> "entry", handler |-> handler,
     body |-> [stops |-> stops, vehicleStartTimeIso |-> start], now |-> now,
     gi |-> 1, out |-> <<>>, gcStops |-> <<>>, matrix |-> <<>>,
     solveInput |-> <<>>, order |-> <<>>, orderedStops |-> <<>>,
     driverStartTimeIso |-> <<>>, etaResult |-> <<>>,
     response |-> [status |-> 0]]

\* The catch block of either handler (lines 212-219, 385-392).
optimizeCatch(o, message) ==
    [o EXCEPT !.pc = "responded",
              !.response = [status |-> 500, code |-> "INTERNAL", message |-> message]]

\* Lines 109-119 and 300-310.
optimizeEntry(o) ==
    IF Len(o.body.stops) = 0
    THEN [o EXCEPT !.pc = "responded",
                   !.response = [status |-> 400, code |-> "INPUT_INVALID"]]
    ELSE [o EXCEPT !.pc = "geocode", !.gi = 1, !.out = <<>>]

\* geocodeStopsIfNeeded queries the geocoder for this stop (lines 91-107).
needsGeocoding(s) == ~s.hasLatLng /\ s.hasAddress

\* One pass of the loop of geocodeStopsIfNeeded, lines 89-129; found tells
\* whether the geocoder returned a result for the address.
geocodeStep(o, found) ==
    LET s == o.body.stops[o.gi]
        out == IF s.hasLatLng THEN Append(o.out, s)
               ELSE IF ~s.hasAddress THEN o.out
               ELSE IF found THEN Append(o.out, [s EXCEPT !.hasLatLng = TRUE])
               ELSE Append(o.out, s)
    IN [o EXCEPT !.out = out, !.gi = o.gi + 1,
                 !.pc = IF o.gi < Len(o.body.stops) THEN "geocode" ELSE "geocoded"]

\* Line 122 (filter on coordinates) and line 311 (no filter).
gcStopsOf(o) ==
    IF o.handler = "trafficAware" THEN SelectSeq(o.out, LAMBDA s : s.hasLatLng) ELSE o.out

\* Lines 122-130 and 311-318.
optimizeFilter(o) ==
    LET gcStops == gcStopsOf(o)
    IN IF Len(gcStops) = 0
       THEN [o EXCEPT !.gcStops = gcStops, !.pc = "responded",
                      !.response = [status |-> 400, code |-> "INPUT_INVALID"]]
       ELSE [o EXCEPT !.gcStops = gcStops, !.pc = "matrix"]

\* The matrix request can be answered: every waypoint has coordinates (a
\* location without them is rejected by the matrix service).
waypointsValid(o) == \A k \in 1..Len(o.gcStops) : o.gcStops[k].hasLatLng

\* Lines 142-153 and buildMatrix: durations over the depot and gcStops.
optimizeMatrix(o) ==
    [o EXCEPT !.matrix = <<MatrixOf([k \in 1..Len(o.gcStops) |-> o.gcStops[k].radius],
                                    Len(o.gcStops))>>,
              !.pc = "solve"]

\* Lines 155-161 and 333-337: the SolveInput handed to the solver.
solveInputOf(o) ==
    [matrixSeconds |-> o.matrix[1],
     stops |-> o.body.stops,
     startTimeIso |-> IF o.handler = "trafficAware" THEN o.body.vehicleStartTimeIso ELSE <<>>,
     avoidRushHour |-> o.handler = "trafficAware"]

\* Lines 155-163 and 333-339: the solver runs, and order is mapped through
\* gcStops; gcStops[index] is undefined (<<>>) beyond the list.
optimizeSolve(o) ==
    LET input == solveInputOf(o)
        fn == IF o.handler = "trafficAware" THEN "solveVRPTWTrafficAware" ELSE "solveVRPTW"
        solveResult == RunSolver(SolverCall(fn, input))
    IN IF solveResult.threw THEN optimizeCatch(o, "RangeError")
       ELSE [o EXCEPT
               !.solveInput = <<input>>,
               !.order = solveResult.order,
               !.orderedStops = [k \in 1..Len(solveResult.order) |->
                                   IF solveResult.order[k] < Len(o.gcStops)
                                   THEN <<o.gcStops[solveResult.order[k] + 1]>> ELSE <<>>],
               !.pc = "solved"]

\* Mutant of driverStartTimeOf: the requested vehicle start time is used as
\* the driver start time when the request carries one.
driverStartTimeOfRequested(o) ==
    IF Len(o.orderedStops) = 0 THEN <<>>
    ELSE LET firstIdx == o.order[1] + 1
             travelToFirstSec == o.matrix[1][0][firstIdx]
             proposed == o.orderedStops[1][1].timeWindowStart - travelToFirstSec * 1000
         IN IF o.body.vehicleStartTimeIso # <<>> THEN o.body.vehicleStartTimeIso
            ELSE IF proposed < o.now THEN <<o.now>> ELSE <<proposed>>

\* Lines 166-185 and 342-361.
driverStartTimeOf(o) ==
    IF Len(o.orderedStops) = 0 THEN <<>>
    ELSE LET firstIdx == o.order[1] + 1
             travelToFirstSec == o.matrix[1][0][firstIdx]
             proposed == o.orderedStops[1][1].timeWindowStart - travelToFirstSec * 1000
             allowPastDate == /\ o.body.vehicleStartTimeIso # <<>>
                              /\ DayOf(o.body.vehicleStartTimeIso[1]) # DayOf(o.now)
         IN IF allowPastDate THEN <<proposed>>
            ELSE IF proposed < o.now THEN <<o.now>> ELSE <<proposed>>

\* Lines 165-194 and 341-370: the driver start time and computeEtas.  An
\* undefined entry of orderedStops raises a TypeError when its
\* timeWindowStart is read (line 170, or inside computeEtas).
optimizeEtas(o) ==
    IF \E k \in 1..Len(o.orderedStops) : o.orderedStops[k] = <<>>
    THEN optimizeCatch(o, "TypeError")
    ELSE LET start == driverStartTimeOf(o)
             params == [startTimeIso |-> IF start = <<>> THEN o.now ELSE start[1],
                        orderedStops |-> [k \in 1..Len(o.orderedStops) |-> o.orderedStops[k][1]],
                        originalIndices |-> o.order,
                        durationsSeconds |-> o.matrix[1],
                        distancesMeters |-> MetersOf(o.matrix[1])]
             etaResult == computeEtas(EtaCall(params))
         IN [o EXCEPT !.driverStartTimeIso = start,
                      !.etaResult = <<[orderedStops |-> etaResult.result,
                                       totalDistanceMeters |-> etaResult.totalDistance,
                                       totalDurationSeconds |-> etaResult.totalDuration]>>,
                      !.pc = "polylines"]

\* Lines 196-211 and 372-384.
optimizeRespond(o) ==
    LET etaResult == o.etaResult[1]
        common == [status |-> 200, orderedStops |-> etaResult.orderedStops,
                   totalDistanceMeters |-> etaResult.totalDistanceMeters,
                   totalDurationSeconds |-> etaResult.totalDurationSeconds,
                   driverStartTimeIso |-> o.driverStartTimeIso]
    IN [o EXCEPT !.pc = "responded",
                 !.response =
                     IF o.handler = "trafficAware"
                     THEN [routes |-> splitRoutes(SplitCall(etaResult.orderedStops)).routes]
                          @@ common
                     ELSE common]

OptimizeRequests(maxStops) ==
    {OptimizeRequest(handler, stops, start, now) :
        handler \in {"trafficAware", "plain"}, stops \in BodyStopLists(maxStops),
        start \in VehicleStartChoices, now \in NowChoices}

InitOptimize ==
    /\ optimize \in OptimizeRequests(MaxBodyStops)
    /\ solver = [pc |-> "idle"]
    /\ eta = [pc |-> "idle"]
    /\ split = [pc |-> "idle"]
    /\ refine = [pc |-> "idle"]
    /\ tracking = [pc |-> "idle"]

OptimizeEntry ==
    /\ optimize.pc = "entry"
    /\ optimize' = optimizeEntry(optimize)
    /\ UNCHANGED <<solver, eta, split, refine, tracking>>

GeocodeStop ==
    /\ optimize.pc = "geocode"
    /\ IF needsGeocoding(optimize.body.stops[optimize.gi])
       THEN \E found \in BOOLEAN : optimize' = geocodeStep(optimize, found)
       ELSE optimize' = geocodeStep(optimize, FALSE)
    /\ UNCHANGED <<solver, eta, split, refine, tracking>>

\* Lines 117-123: the geocoder cannot be reached; the exception leaves
\* geocodeStopsIfNeeded and reaches the handler's catch.
GeocodeUnreachable ==
    /\ optimize.pc = "geocode"
    /\ needsGeocoding(optimize.body.stops[optimize.gi])
    /\ optimize' = optimizeCatch(optimize, "Cannot connect to Nominatim")
    /\ UNCHANGED <<solver, eta, split, refine, tracking>>

OptimizeFilter ==
    /\ optimize.pc = "geocoded"
    /\ optimize' = optimizeFilter(optimize)
    /\ UNCHANGED <<solver, eta, split, refine, tracking>>

OptimizeBuildMatrix ==
    /\ optimize.pc = "matrix"
    /\ waypointsValid(optimize)
    /\ optimize' = optimizeMatrix(optimize)
    /\ UNCHANGED <<solver, eta, split, refine, tracking>>

\* buildMatrix lines 130-143: the request fails or the answer has the wrong size.
OptimizeMatrixFails ==
    /\ optimize.pc = "matrix"
    /\ optimize' = optimizeCatch(optimize, "ORS matrix request failed")
    /\ UNCHANGED <<solver, eta, split, refine, tracking>>

OptimizeSolve ==
    /\ optimize.pc = "solve"
    /\ optimize' = optimizeSolve(optimize)
    /\ UNCHANGED <<solver, eta, split, refine, tracking>>

OptimizeEtas ==
    /\ optimize.pc = "solved"
    /\ optimize' = optimizeEtas(optimize)
    /\ UNCHANGED <<solver, eta, split, refine, tracking>>

OptimizeRespond ==
    /\ optimize.pc = "polylines"
    /\ optimize' = optimizeRespond(optimize)
    /\ UNCHANGED <<solver, eta, split, refine, tracking>>

\* getDirectionsPolyline throws (request failed, status not OK).
OptimizePolylineFails ==
    /\ optimize.pc = "polylines"
    /\ optimize' = optimizeCatch(optimize, "Google Maps Directions request failed")
    /\ UNCHANGED <<solver, eta, split, refine, tracking>>

NextOptimize ==
    \/ OptimizeEntry
    \/ GeocodeStop
    \/ GeocodeUnreachable
    \/ OptimizeFilter
    \/ OptimizeBuildMatrix
    \/ OptimizeMatrixFails
    \/ OptimizeSolve
    \/ OptimizeEtas
    \/ OptimizeRespond
    \/ OptimizePolylineFails

SpecOptimize == InitOptimize /\ [][NextOptimize]_vars

(***************************************************************************)
(* The Time-Slot Batcher: batchStopsByTimeSlot, buildMatrixWithDirections  *)
(* and POST optimize-batches.  In SpecBatch the variable optimize holds    *)
(* the request of this handler.  Waits are fractional seconds in the code  *)
(* (line 525 does not round), so the waits, durations, distances and       *)
(* totals of this handler are held in thousandths.                         *)
(***************************************************************************)
MaxBatchStops == 2

\* Pairwise queries of one request that are answered without a usable route.
MaxSkippedPairs == 1

\* Math.round(a / b) for b > 0: halves round up.
RoundDiv(a, b) == FloorDiv(2 * a + b, 2 * b)

\* A stop of the request: identity, window and place.
BatchStop(id, ws, we, loc) ==
    [id |-> id, timeWindowStart |-> ws, timeWindowEnd |-> we, loc |-> loc]

\* Windows starting in each band, at the band edges and outside the bands.
BatchStopKinds ==
    { <<At(8, 0, 0, 0), At(12, 0, 0, 0), "a">>,
      <<At(11, 59, 59, 999), At(12, 0, 20, 0), "b">>,
      <<At(12, 0, 0, 0), At(16, 0, 0, 0), "a">>,
      <<At(16, 0, 0, 0), At(20, 0, 0, 0), "b">>,
      <<At(7, 59, 59, 999), At(9, 0, 0, 0), "a">>,
      <<At(20, 0, 0, 0), At(22, 0, 0, 0), "b">> }

BatchStopLists(maxStops) ==
    UNION {{[i \in 1..m |-> BatchStop(<<"stop", i - 1>>, k[i][1], k[i][2], k[i][3])] :
               k \in [1..m -> BatchStopKinds]}
           : m \in 0..maxStops}

\* body.vehicleStartTimeIso (a string by its type; absent, the Date is invalid).
BatchStartChoices ==
    { <<>>, <<At(7, 30, 0, 500)>>, <<At(11, 30, 30, 0)>>, <<At(12, 0, 0, 0)>> }

\* Mutant of batchStopsByTimeSlot: the morning band opens at 7, as the
\* morning period of getTimePeriod does.
batchStopsByTimeSlotFromSeven(stops) ==
    LET startHour(stop) == getHours(stop.timeWindowStart)
        batches ==
          << [slotName |-> "Morning", slotStart |-> 8, slotEnd |-> 12,
              stops |-> SelectSeq(stops, LAMBDA t : startHour(t) >= 7 /\ startHour(t) < 12)],
             [slotName |-> "Afternoon", slotStart |-> 12, slotEnd |-> 16,
              stops |-> SelectSeq(stops, LAMBDA t : startHour(t) >= 12 /\ startHour(t) < 16)],
             [slotName |-> "Evening", slotStart |-> 16, slotEnd |-> 20,
              stops |-> SelectSeq(stops, LAMBDA t : startHour(t) >= 16 /\ startHour(t) < 20)] >>
    IN SelectSeq(batches, LAMBDA batch : Len(batch.stops) > 0)

\* batchStopsByTimeSlot, lines 14-38.
batchStopsByTimeSlot(stops) ==
    LET startHour(stop) == getHours(stop.timeWindowStart)
        batches ==
          << [slotName |-> "Morning", slotStart |-> 8, slotEnd |-> 12,
              stops |-> SelectSeq(stops, LAMBDA t : startHour(t) >= 8 /\ startHour(t) < 12)],
             [slotName |-> "Afternoon", slotStart |-> 12, slotEnd |-> 16,
              stops |-> SelectSeq(stops, LAMBDA t : startHour(t) >= 12 /\ startHour(t) < 16)],
             [slotName |-> "Evening", slotStart |-> 16, slotEnd |-> 20,
              stops |-> SelectSeq(stops, LAMBDA t : startHour(t) >= 16 /\ startHour(t) < 20)] >>
    IN SelectSeq(batches, LAMBDA batch : Len(batch.stops) > 0)

\* Lines 410-411: n x n matrices of zeros (rows and columns 0..n-1).
ZeroMatrix(n) == [i \in 0..(n - 1) |-> [j \in 0..(n - 1) |-> 0]]

\* The request at the handler's entry.
BatchRequest(stops, start, profile) ==
    [pc |-> "entry", handler |-> "batches",
     body |-> [stops |-> stops, vehicleStartTimeIso |-> start], profile |-> profile,
     batches |-> <<>>, b |-> 1, i |-> 0, j |-> 0, skipped |-> 0,
     durationsSeconds |-> <<>>, distancesMeters |-> <<>>,
     routes |-> <<>>, totalDistance |-> 0, totalDuration |-> 0, allOrderedStops |-> <<>>,
     response |-> [status |-> 0]]

\* Lines 571-578.
batchCatch(o, message) ==
    [o EXCEPT !.pc = "responded",
              !.response = [status |-> 500, code |-> "INTERNAL", message |-> message]]

\* Lines 408-416: the loops of buildMatrixWithDirections start over batch b.
matrixStart(o, b) ==
    LET n == Len(o.batches[b].stops) + 1
    IN [o EXCEPT !.b = b, !.i = 0, !.j = 1,
                 !.durationsSeconds = ZeroMatrix(n), !.distancesMeters = ZeroMatrix(n),
                 !.pc = "pair"]

\* Lines 449-479: validation, batching, and the first matrix is begun.
batchEntry(o) ==
    IF Len(o.body.stops) = 0
    THEN [o EXCEPT !.pc = "responded",
                   !.response = [status |-> 400, code |-> "INPUT_INVALID"]]
    ELSE LET batches == batchStopsByTimeSlot(o.body.stops)
         IN IF Len(batches) = 0
            THEN [o EXCEPT !.batches = batches, !.pc = "responded",
                           !.response = [status |-> 400, code |-> "INPUT_INVALID"]]
            ELSE matrixStart([o EXCEPT !.batches = batches], 1)

\* Line 408: locations = [depot, ...stops].
batchLocation(o, node) == IF node = 0 THEN "depot" ELSE o.batches[o.b].stops[node].loc

\* Lines 414-416 and 441-442: the pair after (i, j), skipping the diagonal;
\* past the last pair the matrix is complete.
pairAdvance(o) ==
    LET n == Len(o.batches[o.b].stops) + 1
        j1 == IF o.j + 1 = o.i THEN o.j + 2 ELSE o.j + 1
    IN IF j1 < n THEN [o EXCEPT !.j = j1]
       ELSE IF o.i + 1 < n THEN [o EXCEPT !.i = o.i + 1, !.j = 0]
       ELSE [o EXCEPT !.pc = "solve"]

\* Lines 433-440 when res.ok is false, the status is not OK or there is no
\* route: nothing is stored and the entry keeps its initial 0.
pairSkipped(o) == pairAdvance([o EXCEPT !.skipped = o.skipped + 1])

\* Lines 433-440 for an answered pair.
pairAnswered(o, leg) ==
    pairAdvance([o EXCEPT
        !.durationsSeconds[o.i][o.j] =
            IF leg.duration_in_traffic # <<>> /\ leg.duration_in_traffic[1] # 0
            THEN leg.duration_in_traffic[1] ELSE leg.duration,
        !.distancesMeters[o.i][o.j] = leg.distance])

\* One pass of the timing loop, lines 511-540, for position k of the order.
\* t is [currentTime, batchDistance, batchDuration, orderedStops].
batchTimingStep(o, order, k, t) ==
    LET prevIdx == IF k = 1 THEN 0 ELSE order[k - 1] + 1
        currIdx == order[k] + 1
        stop == o.batches[o.b].stops[order[k] + 1]
        travelTime == o.durationsSeconds[prevIdx][currIdx]
        distance == o.distancesMeters[prevIdx][currIdx]
        arrival == t.currentTime + travelTime * 1000
        waitTime == IF arrival < stop.timeWindowStart THEN stop.timeWindowStart - arrival ELSE 0
        serviceTime == 300
    IN [currentTime |-> Max(arrival, stop.timeWindowStart) + serviceTime * 1000,
        batchDistance |-> t.batchDistance + distance * 1000,
        batchDuration |-> t.batchDuration + travelTime * 1000 + waitTime + serviceTime * 1000,
        orderedStops |-> Append(t.orderedStops,
            [id |-> stop.id, timeWindowStart |-> stop.timeWindowStart,
             timeWindowEnd |-> stop.timeWindowEnd, loc |-> stop.loc,
             sequenceNumber |-> k, travelSecondsFromPrev |-> travelTime,
             waitSecondsBeforeWindow |-> waitTime, etaIso |-> arrival,
             arrivalDelayMinutes |-> Max(0, RoundDiv(arrival - stop.timeWindowEnd, 60000))])]

\* The timing loop from position k on.
RECURSIVE batchTiming(_, _, _, _)
batchTiming(o, order, k, t) ==
    IF k > Len(order) THEN t
    ELSE batchTiming(o, order, k + 1, batchTimingStep(o, order, k, t))

\* Lines 482-490: the SolveInput of batch b (five service minutes a stop).
batchSolveInput(o) ==
    [matrixSeconds |-> o.durationsSeconds,
     stops |-> [k \in 1..Len(o.batches[o.b].stops) |->
                  Stop(o.batches[o.b].stops[k].timeWindowStart,
                       o.batches[o.b].stops[k].timeWindowEnd, 5)],
     startTimeIso |-> o.body.vehicleStartTimeIso,
     avoidRushHour |-> FALSE]

\* Lines 543-555: the route of a band.  The cost is in cents:
\* hours * 30 * 100 is a 1200th of the duration in thousandths of a second.
batchRoute(slotName, t) ==
    LET cost == CeilDiv(t.batchDuration, 1200)
    IN [id |-> <<"batch", slotName>>, stops |-> t.orderedStops,
        totalDurationSeconds |-> t.batchDuration,
        totalDistanceMeters |-> t.batchDistance,
        estimatedCostCents |-> cost,
        averageCostPerDropCents |->
            IF Len(t.orderedStops) > 0 THEN CeilDiv(cost, Len(t.orderedStops)) ELSE 0]

\* Lines 482-560 for batch b: solve, time, record the route and the totals;
\* then the next batch's matrix is begun, or the loop ends.  An invalid
\* driverStartTime raises a RangeError at line 489 (toISOString).
batchSolve(o) ==
    IF o.body.vehicleStartTimeIso = <<>> THEN batchCatch(o, "RangeError")
    ELSE LET solution == RunSolver(SolverCall("solveVRPTW", batchSolveInput(o)))
             t == batchTiming(o, solution.order, 1,
                              [currentTime |-> o.body.vehicleStartTimeIso[1],
                               batchDistance |-> 0, batchDuration |-> 0,
                               orderedStops |-> <<>>])
             done == [o EXCEPT
                        !.routes = Append(o.routes, batchRoute(o.batches[o.b].slotName, t)),
                        !.totalDistance = o.totalDistance + t.batchDuration,
                        !.totalDuration = o.totalDuration + t.batchDuration,
                        !.allOrderedStops = o.allOrderedStops \o t.orderedStops]
         IN IF o.b < Len(o.batches) THEN matrixStart(done, o.b + 1)
            ELSE [done EXCEPT !.pc = "respond"]

\* Lines 562-569.
batchRespond(o) ==
    [o EXCEPT !.pc = "responded",
              !.response = [status |-> 200, orderedStops |-> o.allOrderedStops,
                            totalDistanceMeters |-> o.totalDistance,
                            totalDurationSeconds |-> o.totalDuration,
                            driverStartTimeIso |-> o.body.vehicleStartTimeIso,
                            routes |-> o.routes]]

BatchRequests(maxStops) ==
    {BatchRequest(stops, start, profile) :
        stops \in BatchStopLists(maxStops), start \in BatchStartChoices,
        profile \in {"congested", "noTrafficData"}}

InitBatch ==
    /\ optimize \in BatchRequests(MaxBatchStops)
    /\ solver = [pc |-> "idle"]
    /\ eta = [pc |-> "idle"]
    /\ split = [pc |-> "idle"]
    /\ refine = [pc |-> "idle"]
    /\ tracking = [pc |-> "idle"]

BatchEntry ==
    /\ optimize.pc = "entry"
    /\ optimize' = batchEntry(optimize)
    /\ UNCHANGED <<solver, eta, split, refine, tracking>>

\* The directions query of pair (i, j) is answered with a route.
BatchPairAnswered ==
    /\ optimize.pc = "pair"
    /\ LET departure == IF optimize.body.vehicleStartTimeIso = <<>> THEN 0
                        ELSE optimize.body.vehicleStartTimeIso[1]
       IN optimize' = pairAnswered(optimize,
              DirectionsResponse(optimize.profile, batchLocation(optimize, optimize.i),
                                 batchLocation(optimize, optimize.j), departure))
    /\ UNCHANGED <<solver, eta, split, refine, tracking>>

\* The query of pair (i, j) gets a non-2xx response, a non-OK status or no route.
BatchPairSkipped ==
    /\ optimize.pc = "pair"
    /\ optimize.skipped < MaxSkippedPairs
    /\ optimize' = pairSkipped(optimize)
    /\ UNCHANGED <<solver, eta, split, refine, tracking>>

\* Line 431: fetch rejects; the exception reaches the handler's catch.
BatchPairThrows ==
    /\ optimize.pc = "pair"
    /\ optimize' = batchCatch(optimize, "fetch failed")
    /\ UNCHANGED <<solver, eta, split, refine, tracking>>

BatchSolve ==
    /\ optimize.pc = "solve"
    /\ optimize' = batchSolve(optimize)
    /\ UNCHANGED <<solver, eta, split, refine, tracking>>

BatchRespond ==
    /\ optimize.pc = "respond"
    /\ optimize' = batchRespond(optimize)
    /\ UNCHANGED <<solver, eta, split, refine, tracking>>

NextBatch ==
    \/ BatchEntry
    \/ BatchPairAnswered
    \/ BatchPairSkipped
    \/ BatchPairThrows
    \/ BatchSolve
    \/ BatchRespond

SpecBatch == InitBatch /\ [][NextBatch]_vars

(***************************************************************************)
(* useDriverTracking (the hook of middleware.ts lines 144-298) and POST    *)
(* /api/driver/location.  The hook is called with a session id; the wake   *)
(* lock and the UI state (isTracking, lastLocation, error) are left out.   *)
(* A location log is its serial number and its latitude; fetch resolves    *)
(* for every HTTP response and rejects only when the network fails.        *)
(***************************************************************************)
\* Location logs recorded by one driver page.
MaxLogs == 2

\* Uploads begun by one driver page.
MaxUploads == 3

\* Position watches registered by one driver page.
MaxWatches == 2

\* Latitudes a position may carry (0 is falsy for the server's validation).
LatitudeChoices == {0, 48}

\* The hook before its effect has run (lines 144-151).
TrackingHook(enabled) ==
    [pc |-> "rendered", enabled |-> enabled, mounted |-> FALSE,
     bufferRef |-> <<>>, watchIdRef |-> <<>>, watches |-> {}, nextWatch |-> 1,
     uploads |-> {}, nextUpload |-> 1, recorded |-> 0, stored |-> <<>>]

\* startTracking, lines 201-260: a watch is registered unless one is held.
startTracking(t) ==
    IF t.watchIdRef # <<>> THEN t
    ELSE [t EXCEPT !.watchIdRef = <<t.nextWatch>>,
                   !.watches = t.watches \cup {t.nextWatch},
                   !.nextWatch = t.nextWatch + 1]

\* stopTracking, lines 262-272: the watch held in watchIdRef is cleared.
stopTracking(t) ==
    IF t.watchIdRef # <<>>
    THEN [t EXCEPT !.watches = t.watches \ {t.watchIdRef[1]}, !.watchIdRef = <<>>]
    ELSE t

\* The success callback of watchPosition, lines 215-232.
positionCallback(t, latitude) ==
    [t EXCEPT !.bufferRef = Append(t.bufferRef, [n |-> t.recorded + 1, latitude |-> latitude,
                                                 longitude |-> 2]),
              !.recorded = t.recorded + 1]

\* The error callback of watchPosition, lines 233-253: the ref is cleared so
\* that tracking can be restarted; the watch itself stays registered.
errorCallback(t) == [t EXCEPT !.watchIdRef = <<>>]

\* flushBuffer up to its await, lines 274-278: the buffer is copied into the
\* request and cleared.
flushBuffer(t) ==
    IF Len(t.bufferRef) = 0 THEN t
    ELSE [t EXCEPT !.uploads = t.uploads \cup {[u |-> t.nextUpload, logs |-> t.bufferRef]},
                   !.nextUpload = t.nextUpload + 1,
                   !.bufferRef = <<>>]

\* The catch block of flushBuffer, lines 286-290: the logs of the failed
\* upload are put back in front of the buffer.
flushCaught(t, upload) ==
    [t EXCEPT !.uploads = t.uploads \ {upload},
              !.bufferRef = upload.logs \o t.bufferRef]

\* The await of flushBuffer returns (lines 280-285): the response is not read.
flushResolved(t, upload) == [t EXCEPT !.uploads = t.uploads \ {upload}]

\* POST /api/driver/location, part_012 lines 102-142: the status answered
\* and the table afterwards.
postLocation(stored, logs, insertFails) ==
    IF Len(logs) = 0 THEN [status |-> 200, stored |-> stored]
    ELSE IF logs[1].latitude = 0 \/ logs[1].longitude = 0
    THEN [status |-> 400, stored |-> stored]
    ELSE IF insertFails THEN [status |-> 500, stored |-> stored]
    ELSE [status |-> 200, stored |-> stored \o logs]

\* The effect, lines 153-182, for the rendered props.
effectRun(t) ==
    IF ~t.enabled THEN [stopTracking(t) EXCEPT !.pc = "settled"]
    ELSE [startTracking(t) EXCEPT !.pc = "settled", !.mounted = TRUE]

\* The effect's cleanup, lines 183-188 (none was returned when tracking was
\* disabled), followed by a render with the flag toggled or by the unmount.
effectCleanup(t, unmount) ==
    LET cleaned == IF t.mounted THEN flushBuffer(stopTracking(t)) ELSE t
    IN [cleaned EXCEPT !.mounted = FALSE,
                       !.enabled = IF unmount THEN t.enabled ELSE ~t.enabled,
                       !.pc = IF unmount THEN "unmounted" ELSE "rendered"]

\* A flush that begins in t stays within the uploads of the model.
CanFlush(t) == Len(t.bufferRef) = 0 \/ t.nextUpload <= MaxUploads

\* A startTracking that begins in t stays within the watches of the model.
CanStart(t) == t.watchIdRef # <<>> \/ t.nextWatch <= MaxWatches

InitTracking ==
    /\ tracking \in {TrackingHook(enabled) : enabled \in BOOLEAN}
    /\ solver = [pc |-> "idle"]
    /\ eta = [pc |-> "idle"]
    /\ split = [pc |-> "idle"]
    /\ refine = [pc |-> "idle"]
    /\ optimize = [pc |-> "idle"]

TrackingEffect ==
    /\ tracking.pc = "rendered"
    /\ CanStart(tracking)
    /\ tracking' = effectRun(tracking)
    /\ UNCHANGED <<solver, eta, split, refine, optimize>>

\* The props change (enabled is toggled) or the page unmounts.
TrackingCleanup ==
    /\ tracking.pc = "settled"
    /\ CanFlush(tracking)
    /\ \E unmount \in BOOLEAN : tracking' = effectCleanup(tracking, unmount)
    /\ UNCHANGED <<solver, eta, split, refine, optimize>>

\* The page becomes visible again (lines 164-181).
TrackingVisibilityChange ==
    /\ tracking.pc = "settled" /\ tracking.mounted
    /\ tracking.watchIdRef = <<>> /\ CanStart(tracking)
    /\ tracking' = startTracking(tracking)
    /\ UNCHANGED <<solver, eta, split, refine, optimize>>

\* A registered watch delivers a position.
TrackingPosition ==
    /\ tracking.pc # "idle"
    /\ tracking.watches # {}
    /\ tracking.recorded < MaxLogs
    /\ \E latitude \in LatitudeChoices : tracking' = positionCallback(tracking, latitude)
    /\ UNCHANGED <<solver, eta, split, refine, optimize>>

\* The watch held in watchIdRef reports an error.
TrackingPositionError ==
    /\ tracking.pc # "idle"
    /\ tracking.watchIdRef # <<>>
    /\ tracking' = errorCallback(tracking)
    /\ UNCHANGED <<solver, eta, split, refine, optimize>>

\* The 30 s interval fires (line 161).
TrackingFlushTimer ==
    /\ tracking.pc = "settled" /\ tracking.mounted
    /\ Len(tracking.bufferRef) > 0
    /\ CanFlush(tracking)
    /\ tracking' = flushBuffer(tracking)
    /\ UNCHANGED <<solver, eta, split, refine, optimize>>

\* An upload reaches the server and its response reaches the page.
TrackingUploadAnswered ==
    /\ tracking.pc # "idle"
    /\ \E upload \in tracking.uploads, insertFails \in BOOLEAN :
          LET answer == postLocation(tracking.stored, upload.logs, insertFails)
          IN tracking' = [flushResolved(tracking, upload) EXCEPT !.stored = answer.stored]
    /\ UNCHANGED <<solver, eta, split, refine, optimize>>

\* The network fails before the request reaches the server: fetch rejects.
TrackingUploadFetchFails ==
    /\ tracking.pc # "idle"
    /\ \E upload \in tracking.uploads : tracking' = flushCaught(tracking, upload)
    /\ UNCHANGED <<solver, eta, split, refine, optimize>>

\* The server handles the request but its response is lost: fetch rejects.
TrackingUploadResponseLost ==
    /\ tracking.pc # "idle"
    /\ \E upload \in tracking.uploads, insertFails \in BOOLEAN :
          LET answer == postLocation(tracking.stored, upload.logs, insertFails)
          IN tracking' = [flushCaught(tracking, upload) EXCEPT !.stored = answer.stored]
    /\ UNCHANGED <<solver, eta, split, refine, optimize>>

NextTracking ==
    \/ TrackingEffect
    \/ TrackingCleanup
    \/ TrackingVisibilityChange
    \/ TrackingPosition
    \/ TrackingPositionError
    \/ TrackingFlushTimer
    \/ TrackingUploadAnswered
    \/ TrackingUploadFetchFails
    \/ TrackingUploadResponseLost

SpecTracking == InitTracking /\ [][NextTracking]_vars

(***************************************************************************)
(* Claims.                                                                 *)
(***************************************************************************)
\* order lists every index 0..n-1 exactly once.
IsPermutation(order, n) ==
    /\ Len(order) = n
    /\ {order[k] : k \in 1..Len(order)} = 0..(n - 1)

\* C1: for every input of n stops solveVRPTW returns an order that is a
\* permutation of 0..n-1 (no index missing, none duplicated).
C1_SolveVRPTWReturnsPermutation ==
    (solver.pc = "done" /\ solver.fn = "solveVRPTW")
        => IsPermutation(solver.order, solver.n)

\* C1 witness: a call on two or more stops returned after its loop left a
\* stop unvisited, so the fallback appended it.
C1_Witness ==
    /\ solver.pc = "done" /\ solver.fn = "solveVRPTW"
    /\ solver.n >= 2
    /\ \E i \in 0..(solver.n - 1) : ~solver.visited[i]

\* C2 (as claimed): solveVRPTWTrafficAware never drops a stop: the returned
\* order contains every index 0..n-1 exactly once, also for stops whose
\* service cannot finish before their window closes.
C2_TrafficAwareNeverDropsStop ==
    (solver.pc = "done" /\ solver.fn = "solveVRPTWTrafficAware")
        => IsPermutation(solver.order, solver.n)

\* C3 (as claimed): with an empty stop list, with or without a start time,
\* both solvers return an empty order and computeEtas returns no stops and
\* zero totals; none of them raises an exception.
C3_EmptyInputReturnsEmpty ==
    /\ (solver.pc = "done" /\ solver.n = 0)
          => (~solver.threw /\ solver.order = <<>>)
    /\ (eta.pc = "done" /\ Len(eta.params.orderedStops) = 0)
          => (eta.result = <<>> /\ eta.totalDistance = 0 /\ eta.totalDuration = 0)

\* Positions in result of the real (non depot-return) entries, in order.
RealPositions(result) == Ascending({p \in 1..Len(result) : ~result[p].isDepotReturn})

\* The entry right before the stop of position idx is a depot return.
ReturnEmittedBefore(e, idx) ==
    LET p == RealPositions(e.result)[idx + 1]
    IN p > 1 /\ e.result[p - 1].isDepotReturn

\* The wait at the stop of position idx when it is driven to directly from
\* where the previous stop's service ended, recomputed from what was emitted.
DirectWaitSeconds(e, idx) ==
    LET prev == e.result[RealPositions(e.result)[idx]]
        departure == IF idx = 0 THEN e.params.startTimeIso
                     ELSE prev.etaIso + prev.serviceMinutes * 60000
        from == IF idx = 0 THEN 0 ELSE e.params.originalIndices[idx] + 1
        to == e.params.originalIndices[idx + 1] + 1
        arrival == departure + e.params.durationsSeconds[from][to] * 1000
        opens == e.params.orderedStops[idx + 1].timeWindowStart
    IN IF arrival < opens THEN (opens - arrival) \div 1000 ELSE 0

\* The coarse period of a window start: 7-12h, 12-16h, 16-20h, other.
CoarsePeriod(t) ==
    LET h == (t \div 3600000) % 24
    IN IF h \in 7..11 THEN "morning" ELSE IF h \in 12..15 THEN "afternoon"
       ELSE IF h \in 16..19 THEN "evening" ELSE "other"

PeriodChanges(e, idx) ==
    /\ idx > 0
    /\ CoarsePeriod(e.params.orderedStops[idx].timeWindowStart)
         # CoarsePeriod(e.params.orderedStops[idx + 1].timeWindowStart)

C6_EndsWithOneDepotReturn ==
    eta.pc # "idle" =>
        /\ \A k \in 1..(Len(eta.result) - 1) :
              ~(eta.result[k].isDepotReturn /\ eta.result[k + 1].isDepotReturn)
        /\ (eta.pc = "done" /\ Len(eta.params.orderedStops) > 0)
              => /\ Len(eta.result) >= 2
                 /\ eta.result[Len(eta.result)].isDepotReturn
                 /\ eta.result[Len(eta.result)].id = <<"depot-return-final">>
                 /\ ~eta.result[Len(eta.result) - 1].isDepotReturn

\* C6 witness: a finished simulation whose last stop was reached through a
\* depot return, and which still ends with the final return.
C6_Witness ==
    /\ eta.pc = "done"
    /\ Len(eta.result) >= 3
    /\ eta.result[Len(eta.result) - 2].isDepotReturn
    /\ eta.result[Len(eta.result)].isDepotReturn

\* Seconds an emitted entry stands for: travel, wait and service.
EntrySeconds(x) ==
    x.travelSecondsFromPrev + x.waitSecondsBeforeWindow + x.serviceMinutes * 60

\* C7 (as claimed): totalDurationSeconds of computeEtas is the sum over every
\* emitted entry of travel + wait + service seconds, which is also the sum
\* of the leg durations the route splitter computes from that sequence.
C7_TotalDurationIsSumOfEntries ==
    eta.pc = "done" =>
        /\ eta.totalDuration
             = SumSeq([k \in 1..Len(eta.result) |-> EntrySeconds(eta.result[k])])
        /\ LET legs == splitRoutes(SplitCall(eta.result)).routes
           IN eta.totalDuration
                = SumSeq([k \in 1..Len(legs) |-> legs[k].totalDurationSeconds])

\* C8: in what splitRoutes produces, a depot return is always the last
\* element of its leg, and every leg but possibly the last one ends with a
\* depot return.
C8_DepotReturnEndsLeg ==
    split.pc # "idle" =>
        /\ \A r \in 1..Len(split.routes) :
              \A k \in 1..Len(split.routes[r].stops) :
                 split.routes[r].stops[k].isDepotReturn
                    => k = Len(split.routes[r].stops)
        /\ \A r \in 1..(Len(split.routes) - 1) :
              /\ Len(split.routes[r].stops) > 0
              /\ split.routes[r].stops[Len(split.routes[r].stops)].isDepotReturn
        /\ split.pc = "loop" =>
              \A r \in 1..Len(split.routes) :
                 split.routes[r].stops[Len(split.routes[r].stops)].isDepotReturn

\* C8 witness: a finished split with a leg closed by a depot return after a
\* real stop, followed by a trailing leg that has no depot return.
C8_Witness ==
    /\ split.pc = "done"
    /\ Len(split.routes) >= 2
    /\ Len(split.routes[1].stops) >= 2
    /\ split.routes[1].stops[Len(split.routes[1].stops)].isDepotReturn
    /\ ~split.routes[Len(split.routes)].stops[Len(split.routes[Len(split.routes)].stops)].isDepotReturn


\* A route has just been refined and the next route of the request is about
\* to be refined: refine.call still holds the finished call's variables.
RouteBoundary ==
    /\ refine.pc = "call"
    /\ refine.mode = "routes"
    /\ refine.r >= 2

\* The route refined last, as recorded in refinedRoutes.
PreviousRoute == refine.refinedRoutes[refine.r - 1]

\* The simulated clock when the driver is back at the depot after the route
\* refined last: the clock after the last stop, plus the final return leg
\* when the route does not end with a depot return.
ClockBackAtDepot ==
    refine.call.currentTime
    + (IF refine.call.returnSegment = <<>> THEN 0
       ELSE refine.call.returnSegment[1].durationInTraffic * 1000)

\* C9: in a multi-route refinement, route k+1 starts at route k's start plus
\* route k's refined total duration, and that instant is the simulated clock
\* at which the driver is back at the depot after route k.
C9_NextRouteStartsWhenDriverIsBack ==
    RouteBoundary =>
        /\ refine.routeStartTime =
               refine.call.driverStartTime + PreviousRoute.totalDurationSeconds * 1000
        /\ refine.routeStartTime = ClockBackAtDepot

\* Milliseconds the refinement drops from the waits of a stop list: a wait
\* is rounded down to whole seconds while service starts at the window start.
DroppedMs(stops) ==
    SumSeq([j \in 1..Len(stops) |->
               IF ~stops[j].isDepotReturn /\ stops[j].waitSecondsBeforeWindow > 0
               THEN (stops[j].timeWindowStart - stops[j].etaIso) % 1000 ELSE 0])

C4_SolverSeesExactlyGeocodedStops ==
    optimize.solveInput # <<>> =>
        LET input == optimize.solveInput[1]
            gcStops == optimize.gcStops
        IN /\ \A k \in 1..Len(gcStops) : gcStops[k].hasLatLng
           /\ Len(input.stops) = Len(gcStops)
           /\ \A k \in 1..Len(gcStops) :
                 /\ input.stops[k].id = gcStops[k].id
                 /\ input.stops[k].serviceMinutes = gcStops[k].serviceMinutes
                 /\ input.stops[k].timeWindowStart = gcStops[k].timeWindowStart
                 /\ input.stops[k].timeWindowEnd = gcStops[k].timeWindowEnd
           /\ \A k \in 1..Len(optimize.order) :
                 (optimize.order[k] + 1) \in 1..Len(gcStops)


\* The first stop of route r (r >= 2) has been refined while route r-1, not
\* empty, is recorded in refinedRoutes.
FirstStopOfNextRouteRefined ==
    /\ refine.mode = "routes"
    /\ refine.pc \in {"segment", "finalReturn", "returned"}
    /\ refine.r >= 2
    /\ Len(refine.call.refinedStops) >= 1
    /\ Len(refine.refinedRoutes[refine.r - 1].stops) > 0

\* C11: in multi-route refinement the refined ETA of the first stop of route
\* k+1 is at or after the refined ETA of the last stop of route k.
C11_FirstEtaNotBeforePreviousLastEta ==
    FirstStopOfNextRouteRefined =>
        LET prev == refine.refinedRoutes[refine.r - 1].stops
        IN refine.call.refinedStops[1].etaIso >= prev[Len(prev)].etaIso


\* C12: when a segment query fails, for any segment of any route, the
\* request ends at once with an error response that carries no refined stops
\* and no routes; the failed segment adds no stop and no duration.
C12_SegmentFailureFailsTheCall ==
    [][(refine.pc \in {"segment", "finalReturn"} /\ refine'.pc = "responded") =>
          /\ refine'.response.status = 500
          /\ refine'.response.message \in SegmentFailures
          /\ DOMAIN refine'.response = {"status", "code", "message"}
          /\ refine'.call = refine.call
          /\ refine'.refinedRoutes = refine.refinedRoutes]_vars

\* A segment of a later route failed after an earlier route had been refined.
C12_Witness ==
    /\ refine.pc = "responded"
    /\ refine.response.status = 500
    /\ refine.response.message \in SegmentFailures
    /\ Len(refine.refinedRoutes) >= 1
    /\ Len(refine.refinedRoutes[1].stops) >= 1


\* The band a window-start hour belongs to, "" when it belongs to none.
BandOfHour(h) ==
    IF h >= 8 /\ h < 12 THEN "Morning"
    ELSE IF h >= 12 /\ h < 16 THEN "Afternoon"
    ELSE IF h >= 16 /\ h < 20 THEN "Evening"
    ELSE ""

\* The (band, position) places at which a stop appears in the batches.
PlacesOf(stop, batches) ==
    {<<x, y>> \in (1..Len(batches)) \X (1..MaxBatchStops) :
        y <= Len(batches[x].stops) /\ batches[x].stops[y] = stop}

\* The batches of the request have been computed.
Batched == optimize.pc # "entry" /\ Len(optimize.body.stops) > 0

\* C13: batchStopsByTimeSlot puts a stop in at most one band, the band of
\* its window-start hour; a stop whose hour is outside [8,20) is in no band;
\* stops keep their input order within a band; no empty band is returned.
C13_StopsBatchedByWindowStartHour ==
    Batched =>
        LET batches == optimize.batches
            stops == optimize.body.stops
        IN /\ \A p \in 1..Len(stops) :
                LET band == BandOfHour(getHours(stops[p].timeWindowStart))
                    places == PlacesOf(stops[p], batches)
                IN /\ Cardinality(places) = (IF band = "" THEN 0 ELSE 1)
                   /\ \A pl \in places : batches[pl[1]].slotName = band
           /\ \A x \in 1..Len(batches) :
                /\ Len(batches[x].stops) > 0
                /\ \A y \in 1..Len(batches[x].stops) :
                      \E p \in 1..Len(stops) : stops[p] = batches[x].stops[y]
                /\ \A y, z \in 1..Len(batches[x].stops) :
                      y < z => batches[x].stops[y].id[2] < batches[x].stops[z].id[2]
           /\ \A x, z \in 1..Len(batches) : x # z => batches[x].slotName # batches[z].slotName

\* A request with a stop outside every band and a stop inside one.
C13_Witness ==
    /\ Batched
    /\ Len(optimize.batches) >= 1
    /\ \E p \in 1..Len(optimize.body.stops) :
          BandOfHour(getHours(optimize.body.stops[p].timeWindowStart)) = ""

\* All stops of the routes of a response, in order.
RECURSIVE RouteStops(_)
RouteStops(routes) ==
    IF routes = <<>> THEN <<>> ELSE Head(routes).stops \o RouteStops(Tail(routes))

\* C14: the batcher's response concatenates the per-band routes, and its
\* totalDistanceMeters and totalDurationSeconds are the sums of the bands'.
C14_BatchTotalsAreSumsOfBands ==
    (optimize.pc = "responded" /\ optimize.response.status = 200) =>
        LET routes == optimize.response.routes
        IN /\ optimize.response.orderedStops = RouteStops(routes)
           /\ optimize.response.totalDurationSeconds =
                  SumSeq([x \in 1..Len(routes) |-> routes[x].totalDurationSeconds])
           /\ optimize.response.totalDistanceMeters =
                  SumSeq([x \in 1..Len(routes) |-> routes[x].totalDistanceMeters])


\* The matrix node of position k of the visiting order (the depot for k = 0).
NodeAt(params, k) == IF k = 0 THEN 0 ELSE params.originalIndices[k] + 1

\* The matrix travel time of the direct hops depot -> first stop -> ... ->
\* last stop -> depot along the visiting order.
DirectHopsSeconds(params) ==
    LET n == Len(params.orderedStops)
    IN SumSeq([k \in 1..n |->
                  params.durationsSeconds[NodeAt(params, k - 1)][NodeAt(params, k)]])
       + (IF n > 0 THEN params.durationsSeconds[NodeAt(params, n)][0] ELSE 0)

\* C15: the totalDurationSeconds that computeEtas returns is at least the
\* sum of the matrix travel times of the direct hops along the visiting
\* order, the return to the depot included.
C15_TotalDurationAtLeastDirectHops ==
    eta.pc = "done" => eta.totalDuration >= DirectHopsSeconds(eta.params)

\* A two-stop simulation has ended with more than the direct hops counted.
C15_Witness ==
    /\ eta.pc = "done"
    /\ Len(eta.params.orderedStops) = 2
    /\ eta.totalDuration > DirectHopsSeconds(eta.params)


\* The number of real (non-depot-return) stops of a leg.
RealStopCount(stops) == Cardinality({k \in 1..Len(stops) : ~stops[k].isDepotReturn})

\* C16: for every leg the splitter builds, averageCostPerDrop is the leg's
\* cost divided by the number of its non-depot-return stops (rounded up to a
\* cent), and it is 0 when the leg has no real stop.
C16_AverageCostPerRealStop ==
    \A x \in 1..Len(split.routes) :
        LET route == split.routes[x]
            drops == RealStopCount(route.stops)
        IN route.averageCostPerDropCents =
               (IF drops = 0 THEN 0 ELSE CeilDiv(route.estimatedCostCents, drops))

\* The splitter has built a leg that is only a depot return and a leg with
\* real stops closed by a depot return.
C16_Witness ==
    /\ \E x \in 1..Len(split.routes) :
          RealStopCount(split.routes[x].stops) = 0 /\ split.routes[x].estimatedCostCents > 0
    /\ \E x \in 1..Len(split.routes) :
          /\ RealStopCount(split.routes[x].stops) > 0
          /\ RealStopCount(split.routes[x].stops) < Len(split.routes[x].stops)


\* A simulation of a one-stop order has ended.
OneStopDone == eta.pc = "done" /\ Len(eta.params.orderedStops) = 1

\* start + travel for the stop of a one-stop order.
OneStopArrival ==
    eta.params.startTimeIso
    + eta.params.durationsSeconds[0][eta.params.originalIndices[1] + 1] * 1000

\* C17 as stated: for a one-stop order, for every start time and travel
\* time, exactly two entries are emitted: the stop with ETA = max(start +
\* travel, window start), then the final depot return.
C17_OneStopEmitsStopThenFinalReturn ==
    OneStopDone =>
        /\ Len(eta.result) = 2
        /\ ~eta.result[1].isDepotReturn
        /\ eta.result[1].id = eta.params.orderedStops[1].id
        /\ eta.result[1].etaIso =
               Max(OneStopArrival, eta.params.orderedStops[1].timeWindowStart)
        /\ eta.result[2].isDepotReturn

\* C17, amended: for a one-stop order the stop's ETA is max(start + travel,
\* window start) and the final depot return closes the sequence; when the
\* wait at the stop is at most 1500 s these are the only two entries, and
\* when it exceeds 1500 s one synthetic depot return precedes the stop.
C17_OneStopWithinWaitThreshold ==
    OneStopDone =>
        LET stop == eta.params.orderedStops[1]
            n == Len(eta.result)
            wait == DirectWaitSeconds(eta, 0)
        IN /\ n = (IF wait > 1500 THEN 3 ELSE 2)
           /\ ~eta.result[n - 1].isDepotReturn
           /\ eta.result[n - 1].id = stop.id
           /\ eta.result[n - 1].etaIso = Max(OneStopArrival, stop.timeWindowStart)
           /\ eta.result[n].isDepotReturn
           /\ eta.result[n].id = <<"depot-return-final">>
           /\ n = 3 => (eta.result[1].isDepotReturn /\ eta.result[1].id = <<"depot-return", 0>>)

\* A one-stop order whose stop waited for its window, within the threshold.
C17_Witness ==
    /\ OneStopDone
    /\ Len(eta.result) = 2
    /\ DirectWaitSeconds(eta, 0) > 0
    /\ eta.result[1].etaIso = eta.params.orderedStops[1].timeWindowStart


Reachable(s) == {i \in 0..(s.n - 1) : ~s.visited[i] /\ vrptwTravel(s, i) # <<>>}

\* Stop i would be reached after its window end in the round that starts in s.
ReachedLate(s, i) == s.currentTime + vrptwTravel(s, i)[1] > winEnd(s.input, i)

\* C19: in every round of solveVRPTW the stop selected is reached after its
\* window end only if every stop still unvisited would be: no late choice is
\* made while an on-time candidate remains.
C19_LateChoiceOnlyWhenAllLate ==
    [][(/\ solver.pc = "loop" /\ solver.fn = "solveVRPTW"
        /\ Len(solver'.order) = Len(solver.order) + 1) =>
          LET chosen == solver'.order[Len(solver'.order)]
          IN ReachedLate(solver, chosen) =>
                 \A i \in Reachable(solver) : ReachedLate(solver, i)]_vars

\* A round of solveVRPTW begins with a late candidate and an on-time one.
C19_Witness ==
    /\ solver.pc = "loop" /\ solver.fn = "solveVRPTW"
    /\ \E i, j \in Reachable(solver) :
          ReachedLate(solver, i) /\ ~ReachedLate(solver, j)


\* The candidates of the round that starts in s, for either solver.
Candidates(s) ==
    IF s.fn = "solveVRPTW" THEN Reachable(s)
    ELSE {i \in 0..(s.n - 1) : ~s.visited[i] /\ trafficFeasible(s, i)}

\* The score of candidate i in that round.
ScoreOf(s, i) == IF s.fn = "solveVRPTW" THEN vrptwScore(s, i) ELSE trafficScore2(s, i)

EarliestWindow(s) ==
    CHOOSE w \in {winStart(s.input, i) : i \in 0..(s.n - 1)} :
      \A i \in 0..(s.n - 1) : w <= winStart(s.input, i)

\* The step is the entry of a solver call that has stops and no start time.
EntryWithoutStartTime ==
    /\ solver.pc = "entry" /\ solver'.pc # "entry"
    /\ solver.input.startTimeIso = <<>>
    /\ solver.n > 0

\* C21: when no start time is supplied, neither solver starts its clock at
\* zero: solveVRPTWTrafficAware starts at the earliest window start minus one
\* hour, and the clock solveVRPTW starts with is not zero either.
C21_ClockWithoutStartTimeIsNotZero ==
    [][EntryWithoutStartTime =>
          /\ solver'.currentTime # 0
          /\ solver.fn = "solveVRPTWTrafficAware" =>
                 solver'.currentTime = EarliestWindow(solver) - 3600]_vars


\* The unvisited stops of s that a round may select when the request's
\* avoidRushHour flag has the value flag.
EligibleWithFlag(s, flag) ==
    Candidates([s EXCEPT !.input.avoidRushHour = flag])

\* Candidate i of the round would be reached in the hours 8, 9, 16, 17 or 18.
ArrivesInRushHour(s, i) ==
    getHours((s.currentTime + trafficTravel(s, i)) * 1000) \in {8, 9, 16, 17, 18}

\* Twice the score the rule gives candidate i: travel plus wait, plus half
\* the travel time exactly when the flag is set and the arrival is in rush hour.
AdvisoryScore2(s, i) ==
    LET travel == trafficTravel(s, i)
        wait == Max(0, winStart(s.input, i) - (s.currentTime + travel))
    IN 2 * (travel + wait)
       + (IF s.input.avoidRushHour /\ ArrivesInRushHour(s, i) THEN travel ELSE 0)

\* C22: in solveVRPTWTrafficAware the rush-hour flag is advisory.  The stop a
\* round selects has the least score among the stops eligible in that round,
\* the score being travel + wait plus half the travel time exactly when
\* avoidRushHour is set and the arrival hour is in [8,10) or [16,19); and the
\* set of eligible stops is the same with the flag on or off.
C22_RushHourFlagIsAdvisory ==
    [][(solver.pc = "loop" /\ solver.fn = "solveVRPTWTrafficAware") =>
          /\ EligibleWithFlag(solver, TRUE) = EligibleWithFlag(solver, FALSE)
          /\ IF Len(solver'.order) = Len(solver.order) + 1
             THEN LET chosen == solver'.order[Len(solver'.order)]
                  IN /\ chosen \in EligibleWithFlag(solver, FALSE)
                     /\ \A i \in EligibleWithFlag(solver, FALSE) :
                           AdvisoryScore2(solver, chosen) <= AdvisoryScore2(solver, i)
             ELSE EligibleWithFlag(solver, FALSE) = {}]_vars

\* A round of the traffic-aware solver with the flag set, in which one
\* eligible stop carries the rush-hour penalty and another does not.
C22_Witness ==
    /\ solver.pc = "loop" /\ solver.fn = "solveVRPTWTrafficAware"
    /\ solver.input.avoidRushHour
    /\ \E i, j \in EligibleWithFlag(solver, TRUE) :
          /\ ArrivesInRushHour(solver, i) /\ trafficTravel(solver, i) > 0
          /\ ~ArrivesInRushHour(solver, j)


\* The real stops emitted so far whose window does not end before it starts.
EmittedStops ==
    {k \in 1..Len(eta.result) :
        /\ ~eta.result[k].isDepotReturn
        /\ eta.result[k].timeWindowStart <= eta.result[k].timeWindowEnd}

\* The milliseconds by which the ETA of entry x exceeds its window end.
LateMs(x) == x.etaIso - x.timeWindowEnd

\* C23: for every stop emitted by computeEtas with window start <= window
\* end, arrivalDelayMinutes is 0 when the ETA is at or before the window end
\* or when the stop waited for its window to open, and otherwise it is the
\* least whole number of minutes that covers the time by which the ETA
\* exceeds the window end.
C23_DelayIsLatenessInWholeMinutesUp ==
    eta.pc # "idle" =>
        \A k \in EmittedStops :
            LET x == eta.result[k]
            IN IF LateMs(x) <= 0 \/ x.waitSecondsBeforeWindow > 0
               THEN x.arrivalDelayMinutes = 0
               ELSE /\ x.arrivalDelayMinutes * 60000 >= LateMs(x)
                    /\ (x.arrivalDelayMinutes - 1) * 60000 < LateMs(x)

\* A stop was emitted late by a time that is not a whole number of minutes.
C23_Witness ==
    /\ eta.pc # "idle"
    /\ \E k \in EmittedStops :
          LateMs(eta.result[k]) > 0 /\ LateMs(eta.result[k]) % 60000 # 0


\* C24: in the Time-Slot Batcher a pairwise directions query that errors or
\* returns a non-OK status while a band's matrix is being built makes the
\* request fail with an error: no band is solved, and no plan is returned,
\* from a matrix in which the failed pair was left at 0.
C24_FailedPairQueryFailsTheRequest ==
    (optimize.pc # "idle" /\ optimize.handler = "batches" /\ optimize.skipped > 0) =>
        /\ optimize.pc # "solve" /\ optimize.pc # "respond"
        /\ optimize.pc = "responded" => optimize.response.status >= 400


\* C25: along the sequence emitted by computeEtas the ETAs never go
\* backwards: each entry's etaIso is at or after the etaIso of the entry
\* before it, also for a stop that follows a synthetic depot return.
C25_EtasNeverGoBackwards ==
    eta.pc # "idle" =>
        \A k \in 2..Len(eta.result) : eta.result[k].etaIso >= eta.result[k - 1].etaIso


\* The identity, time window and service minutes of an entry or a stop.
StopFields(x) ==
    [id |-> x.id, timeWindowStart |-> x.timeWindowStart,
     timeWindowEnd |-> x.timeWindowEnd, serviceMinutes |-> x.serviceMinutes]

\* The entries of result that are not depot returns, in order.
WithoutDepotReturns(result) == SelectSeq(result, LAMBDA x : ~x.isDepotReturn)

\* C26: computeEtas only inserts entries.  Removing the depot-return entries
\* from what it has emitted leaves exactly the input stops processed so far
\* (all of orderedStops once it has returned), each once and in the same
\* order, with identity, time window and service minutes unchanged.
C26_OnlyDepotReturnsAreInserted ==
    eta.pc # "idle" =>
        LET kept == WithoutDepotReturns(eta.result)
            upTo == IF eta.pc = "done" THEN Len(eta.params.orderedStops) ELSE eta.idx
        IN /\ Len(kept) = upTo
           /\ \A k \in 1..upTo : StopFields(kept[k]) = StopFields(eta.params.orderedStops[k])

\* computeEtas has returned for two stops with positive service minutes, and
\* a synthetic depot return was inserted between them.
C26_Witness ==
    /\ eta.pc = "done"
    /\ Len(eta.params.orderedStops) = 2
    /\ \A k \in 1..2 : eta.params.orderedStops[k].serviceMinutes > 0
    /\ Len(eta.result) >= 4
    /\ \E k \in 2..(Len(eta.result) - 1) :
          /\ eta.result[k].isDepotReturn
          /\ ~eta.result[k - 1].isDepotReturn
          /\ ~eta.result[k + 1].isDepotReturn


\* The traffic-aware optimize handler has answered with a plan.
OptimizePlanReturned ==
    /\ optimize.pc = "responded"
    /\ optimize.handler = "trafficAware"
    /\ optimize.response.status = 200

\* C27: in the optimize pipeline (driver start time derived by the handler,
\* then computeEtas, then splitRoutes) the first stop never has a positive
\* wait and never triggers a depot return, and every leg returned contains
\* at least one real delivery stop.
C27_FirstStopNeverWaitsAndNoEmptyLeg ==
    OptimizePlanReturned =>
        LET r == optimize.response
        IN /\ Len(r.orderedStops) > 0 =>
                 /\ ~r.orderedStops[1].isDepotReturn
                 /\ r.orderedStops[1].waitSecondsBeforeWindow = 0
           /\ \A k \in 1..Len(r.routes) :
                 \E m \in 1..Len(r.routes[k].stops) : ~r.routes[k].stops[m].isDepotReturn

\* A plan was returned for a request whose vehicle start time is more than
\* 25 minutes before the first stop could be served, and it has two legs.
C27_Witness ==
    /\ OptimizePlanReturned
    /\ optimize.body.vehicleStartTimeIso # <<>>
    /\ Len(optimize.response.orderedStops) > 0
    /\ LET first == optimize.response.orderedStops[1]
       IN first.etaIso - first.travelSecondsFromPrev * 1000
              - optimize.body.vehicleStartTimeIso[1] > WAIT_THRESHOLD_SECONDS * 1000
    /\ Len(optimize.response.routes) >= 2


\* C28: in the traffic-refinement response each route's averageCostPerDrop
\* is its cost divided by the number of delivery stops only (rounded up to a
\* cent): the depot-return entries of the route are not counted as drops, and
\* a route with no delivery stop gets 0.
C28_RefinedAverageCountsDeliveryStopsOnly ==
    (refine.pc = "responded" /\ refine.response.status = 200) =>
        \A k \in 1..Len(refine.response.routes) :
            LET route == refine.response.routes[k]
                drops == RealStopCount(route.stops)
            IN route.averageCostPerDropCents =
                   IF drops > 0 THEN CeilDiv(route.estimatedCostCents, drops) ELSE 0


\* A delivery stop is reported as the claim says: a delay of at least one
\* minute when it is reached strictly after its window end, and 0 otherwise.
DelayReportsLateness(x) ==
    IF x.etaIso > x.timeWindowEnd THEN x.arrivalDelayMinutes >= 1
    ELSE x.arrivalDelayMinutes = 0

\* C29: in refineRouteWithTraffic and in the Time-Slot Batcher's timing loop,
\* a delivery stop whose arrival time is strictly after its window end is
\* always reported with arrivalDelayMinutes >= 1, and a stop arriving at or
\* before its window end is reported with 0.
C29_LateStopReportsAtLeastOneMinute ==
    /\ refine.pc # "idle" =>
          \A k \in 1..Len(refine.call.refinedStops) :
              ~refine.call.refinedStops[k].isDepotReturn =>
                  DelayReportsLateness(refine.call.refinedStops[k])
    /\ (optimize.pc = "responded" /\ optimize.handler = "batches"
        /\ optimize.response.status = 200) =>
          \A k \in 1..Len(optimize.response.orderedStops) :
              DelayReportsLateness(optimize.response.orderedStops[k])


\* The serial numbers of the logs of a sequence.
LogNumbers(logs) == {logs[k].n : k \in 1..Len(logs)}

\* How many entries of logs carry the serial number n.
CopiesIn(logs, n) == Cardinality({k \in 1..Len(logs) : logs[k].n = n})

\* How many logs held by the page (in the buffer or in an upload that has
\* not ended) carry the serial number n.
HeldCopies(n) ==
    CopiesIn(tracking.bufferRef, n)
    + Cardinality({p \in UNION {{<<x, k>> : k \in 1..Len(x.logs)} : x \in tracking.uploads} :
                      p[1].logs[p[2]].n = n})

\* C30: under any interleaving of position callbacks, periodic flushes, the
\* cleanup flush and upload outcomes, a recorded location log has left the
\* page (it is neither in the buffer nor in an upload still under way) only
\* if the server stored it, and no log is held twice: after a failed upload
\* its logs are back in the buffer, none lost and none duplicated.
C30_LogLeavesBufferOnlyWhenAccepted ==
    tracking.pc # "idle" =>
        \A n \in 1..tracking.recorded :
            /\ HeldCopies(n) <= 1
            /\ HeldCopies(n) = 0 => n \in LogNumbers(tracking.stored)

====
